---------------------------- MODULE Spec2Model ----------------------------
(***************************************************************************)
(* Model of the content-acquisition pipeline of agile-biofoundry-search:   *)
(* the batch importer (process_article_batch), the fetch orchestrator      *)
(* (fetch_and_extract_html) and the access ladder of                       *)
(* AcademicArticleFetcher.fetch, all of src/streamlit_app.py.              *)
(*                                                                         *)
(* Strings the code inspects (URLs, domains, URL patterns) are sequences   *)
(* of one-character strings, so that lower(), `in`, endswith(), replace()  *)
(* and quote() are computed as Python computes them.  Article text, which   *)
(* runs to hundreds of thousands of characters, is a sequence of runs       *)
(* <<character, count>>, on which len(), slicing and + are computed.        *)
(* Exception messages, of which the code only uses the length, are natural  *)
(* numbers (their length).                                                  *)
(***************************************************************************)
EXTENDS Integers, Sequences, FiniteSets, TLC

(***************************************************************************)
(* Bounds of the model.                                                    *)
(***************************************************************************)
\* longest list of candidate links handed to one process_article_batch call
MaxItems == 2

\* largest library handed to search_articles
MaxLibrary == 3

\* largest top_k handed to search_articles
MaxTopK == 2

\* largest library of stop-word articles handed to search_articles
MaxKeywordLibrary == 2

\* number of writes of data/articles.json, one after another
MaxWrites == 2

\* number of chunks in which the content of the file is written and read
MaxChunks == 2

\* longest list of links a Fetch of the app stores
MaxFetched == 2

\* number of button clicks in a session of the app
MaxClicks == 3

(***************************************************************************)
(* Program constants.                                                      *)
(***************************************************************************)
MAX_ARTICLE_TEXT == 200000

\* a threshold that lets a text of exactly 200 characters through
MIN_CONTENT_inclusive == 200 - 1

\* len(content) > 200 in extract_content, try_fetch_with_method and
\* process_article_batch
MIN_CONTENT == 200

\* len("\n\n...[truncated]")
TRUNCATION_MARKER_LEN == 16

\* str(e)[:100] in process_article_batch
EXC_MSG_LIMIT == 100

\* url[:80] in the 'Skipped PDF URL' log entry
LOG_URL_LIMIT == 80

BLOCKED_DOMAINS ==
    { <<"a","n","n","u","a","l","r","e","v","i","e","w","s",".","o","r","g">>,
      <<"a","c","s",".","o","r","g">>,
      <<"s","c","i","e","n","c","e",".","o","r","g">>,
      <<"s","c","i","e","n","c","e","d","i","r","e","c","t",".","c","o","m">>,
      <<"w","i","l","e","y",".","c","o","m">>,
      <<"s","p","r","i","n","g","e","r",".","c","o","m">>,
      <<"i","e","e","e","x","p","l","o","r","e",".","i","e","e","e",".","o","r","g">>,
      <<"n","a","t","u","r","e",".","c","o","m">>,
      <<"c","e","l","l",".","c","o","m">>,
      <<"p","n","a","s",".","o","r","g">>,
      <<"j","o","u","r","n","a","l","s",".","a","s","m",".","o","r","g">>,
      <<"l","i","e","b","e","r","t","p","u","b",".","c","o","m">>,
      <<"t","a","n","d","f","o","n","l","i","n","e",".","c","o","m">>,
      <<"s","a","g","e","p","u","b",".","c","o","m">>,
      <<"k","a","r","g","e","r",".","c","o","m">> }

\* "https://proxy.lbl.gov/login?url="
EZPROXY_BASE ==
    <<"h","t","t","p","s",":","/","/","p","r","o","x","y",".","l","b","l",
      ".","g","o","v","/","l","o","g","i","n","?","u","r","l","=">>

(***************************************************************************)
(* Python string operations on character sequences.                        *)
(***************************************************************************)
\* None where a string is expected that the code only tests for presence
None == "None"

\* None where a text is expected: a run no text has
NoContent == << <<"None", -1>> >>

\* a missing URL or title: item.get(...) is None or "", which `not` and `or`
\* treat alike
Missing == <<>>

\* s[:n]
Take(s, n) == SubSeq(s, 1, IF Len(s) < n THEN Len(s) ELSE n)

\* s[n:]
Drop(s, n) == SubSeq(s, n + 1, Len(s))

\* s.endswith(p)
EndsWith(s, p) == Len(p) <= Len(s) /\ SubSeq(s, Len(s) - Len(p) + 1, Len(s)) = p

\* p in s
Contains(s, p) == \E i \in 0 .. (Len(s) - Len(p)) : SubSeq(s, i + 1, i + Len(p)) = p

\* s.find(p), 0-based, -1 when p does not occur
Find(s, p) ==
    IF Contains(s, p)
    THEN CHOOSE i \in 0 .. (Len(s) - Len(p)) :
             /\ SubSeq(s, i + 1, i + Len(p)) = p
             /\ \A j \in 0 .. (i - 1) : SubSeq(s, j + 1, j + Len(p)) # p
    ELSE -1

\* s.replace(old, new), old non-empty: every occurrence, left to right
RECURSIVE Replace(_, _, _)
Replace(s, old, new) ==
    IF Find(s, old) < 0
    THEN s
    ELSE Take(s, Find(s, old)) \o new \o Replace(Drop(s, Find(s, old) + Len(old)), old, new)

LowerChar(c) ==
    CASE c = "P" -> "p"
      [] c = "D" -> "d"
      [] c = "F" -> "f"
      [] c = "W" -> "w"
      [] c = "C" -> "c"
      [] c = "G" -> "g"
      [] c = "O" -> "o"
      [] c = "U" -> "u"
      [] OTHER -> c

\* s.lower(), over the characters the model's strings are made of
Lower(s) == [i \in 1 .. Len(s) |-> LowerChar(s[i])]

\* urllib.parse.quote(c) of one character with the default safe='/':
\* letters, digits and "_.-~/" stay, anything else is percent-encoded
QuoteChar(c) ==
    CASE c = ":" -> <<"%","3","A">>
      [] c = "?" -> <<"%","3","F">>
      [] c = "=" -> <<"%","3","D">>
      [] OTHER -> <<c>>

\* urllib.parse.quote(s)
RECURSIVE quote(_)
quote(s) == IF s = <<>> THEN <<>> ELSE QuoteChar(Head(s)) \o quote(Tail(s))

\* urlparse(url).netloc: what stands between "://" and the next "/", "?" or "#"
RECURSIVE UpToDelimiter(_)
UpToDelimiter(s) ==
    IF s = <<>> \/ Head(s) \in {"/", "?", "#"}
    THEN <<>>
    ELSE <<Head(s)>> \o UpToDelimiter(Tail(s))

netloc(url) ==
    IF Find(url, <<":","/","/">>) < 0
    THEN <<>>
    ELSE UpToDelimiter(Drop(url, Find(url, <<":","/","/">>) + 3))

\* s.count(p), p non-empty: the occurrences that do not overlap, left to right
RECURSIVE str_count(_, _)
str_count(s, p) ==
    IF Find(s, p) < 0 THEN 0 ELSE 1 + str_count(Drop(s, Find(s, p) + Len(p)), p)

\* s.strip(), the white space of the model's strings being the space
RECURSIVE strip(_)
strip(s) ==
    IF s = <<>> THEN s
    ELSE IF Head(s) = " " THEN strip(Tail(s))
    ELSE IF s[Len(s)] = " " THEN strip(SubSeq(s, 1, Len(s) - 1))
    ELSE s

(***************************************************************************)
(* Python string operations on texts: sequences of runs <<c, n>>, n > 0,   *)
(* no two neighbouring runs of the same character.                         *)
(***************************************************************************)
\* the text made of n times the character c
Chars(c, n) == IF n = 0 THEN <<>> ELSE << <<c, n>> >>

\* len(t)
RECURSIVE len(_)
len(t) == IF t = <<>> THEN 0 ELSE t[1][2] + len(Tail(t))

\* t[:k]
RECURSIVE TextTake(_, _)
TextTake(t, k) ==
    IF k <= 0 \/ t = <<>> THEN <<>>
    ELSE IF t[1][2] <= k THEN << t[1] >> \o TextTake(Tail(t), k - t[1][2])
    ELSE << <<t[1][1], k>> >>

\* s + t
TextConcat(s, t) ==
    IF s = <<>> THEN t
    ELSE IF t = <<>> THEN s
    ELSE IF s[Len(s)][1] = t[1][1]
         THEN SubSeq(s, 1, Len(s) - 1) \o << <<t[1][1], s[Len(s)][2] + t[1][2]>> >> \o Tail(t)
         ELSE s \o t

\* "\n\n...[truncated]"
TRUNCATION_MARKER ==
    << <<"\n", 2>>, <<".", 3>>, <<"[", 1>>, <<"t", 1>>, <<"r", 1>>, <<"u", 1>>, <<"n", 1>>,
       <<"c", 1>>, <<"a", 1>>, <<"t", 1>>, <<"e", 1>>, <<"d", 1>>, <<"]", 1>> >>


(***************************************************************************)
(* The inputs: candidate links, credentials, pages, exceptions.            *)
(***************************************************************************)
\* "https://www.acs.org/a": an HTML page on a blocked domain
UrlBlocked ==
    <<"h","t","t","p","s",":","/","/","w","w","w",".","a","c","s",".","o","r","g","/","a">>

\* "https://x.io/a": an HTML page on a domain that is not blocked
UrlOpen == <<"h","t","t","p","s",":","/","/","x",".","i","o","/","a">>

\* "https://acs.org/b.PDF": a direct PDF resource (on a blocked domain)
UrlPdf == <<"h","t","t","p","s",":","/","/","a","c","s",".","o","r","g","/","b",".","P","D","F">>

\* CandidateLink dicts: item.get("url"), item.get("title")
Links ==
    { [url |-> UrlBlocked, title |-> <<"B">>],
      [url |-> UrlOpen, title |-> Missing],
      [url |-> UrlPdf, title |-> <<"P">>],
      [url |-> Missing, title |-> <<"N">>] }

\* the URLs of articles that may already be in the library when a batch starts
SeenBefore == {UrlOpen, UrlPdf}

\* (ezproxy_username, ezproxy_password) as the fetcher ends up holding them
Credentials == { <<None, None>>, <<"user", None>>, <<"user", "pass">> }

\* exceptions that escape fetch_and_extract_html: type(e).__name__, len(str(e))
Exceptions ==
    { [type |-> "ValueError", msg_len |-> 16],
      [type |-> "UnicodeEncodeError", msg_len |-> 141] }

\* number of CONTENT_SELECTORS
NumSelectors == 12

\* inner_text of a selector that matches nothing raises: no text
Absent == << <<"Absent", -1>> >>

\* The text under each content selector of a loaded page, in the order of
\* CONTENT_SELECTORS ('article', 'main', ...).
SelectorTexts(first, second) ==
    [i \in 1 .. NumSelectors |-> IF i = 1 THEN first ELSE IF i = 2 THEN second ELSE Absent]

\* "short"
Short == << <<"s", 1>>, <<"h", 1>>, <<"o", 1>>, <<"r", 1>>, <<"t", 1>> >>

\* a text one character longer than the stored maximum
Oversized == TextConcat(Chars("a", MAX_ARTICLE_TEXT), Chars("z", 1))

PageContents ==
    { SelectorTexts(Absent, Absent),
      SelectorTexts(Short, Absent),
      SelectorTexts(Chars("a", 200), Absent),
      SelectorTexts(Short, Chars("m", 201)),
      SelectorTexts(Absent, Chars("m", 300)),
      SelectorTexts(Oversized, Absent) }

ACCESS_DENIED_PHRASES ==
    { <<"a","c","c","e","s","s"," ","d","e","n","i","e","d">>,
      <<"4","0","3">>,
      <<"f","o","r","b","i","d","d","e","n">>,
      <<"n","o","t"," ","a","u","t","h","o","r","i","z","e","d">>,
      <<"s","u","b","s","c","r","i","p","t","i","o","n"," ","r","e","q","u","i","r","e","d">>,
      <<"p","u","r","c","h","a","s","e">>,
      <<"s","i","g","n"," ","i","n"," ","t","o"," ","a","c","c","e","s","s">>,
      <<"i","n","s","t","i","t","u","t","i","o","n","a","l"," ","a","c","c","e","s","s",
        " ","r","e","q","u","i","r","e","d">>,
      <<"p","a","y","w","a","l","l">> }

\* page.inner_text('body') raises: there is no text to scan
Unreadable == << "<unreadable>" >>

\* the visible text of a page: "Welcome", "error 403", "Paywall"
Bodies ==
    { <<"W","e","l","c","o","m","e">>,
      <<"e","r","r","o","r"," ","4","0","3">>,
      <<"P","a","y","w","a","l","l">>,
      Unreadable }

\* What one browser attempt meets:
\*   launch   sync_playwright() and chromium.launch succeed
\*   goto     page.goto: "ok", "timeout" (PlaywrightTimeout) or "error"
\*   login    "login" in page.url.lower() after the navigation
\*   form     a known login form is on the page and its submission goes through
\*   body     the visible text of the page
\*   texts    the text under each content selector
\*   crash    the call that raises: "context" (new_context / new_page), "wait"
\*            (page.wait_for_timeout), "screenshot" (page.screenshot), "none"
\*   debug    the fetcher's debug flag
AllPages ==
    [ launch : BOOLEAN, goto : {"ok", "timeout", "error"}, login : BOOLEAN,
      form : BOOLEAN, body : Bodies, texts : PageContents,
      crash : {"none", "context", "wait", "screenshot"}, debug : BOOLEAN ]

DefaultTexts == SelectorTexts(Absent, Absent)

DefaultBody == <<"W","e","l","c","o","m","e">>

\* the page of a browser that does not start
NoPage ==
    [ launch |-> FALSE, goto |-> "ok", login |-> FALSE, form |-> FALSE, body |-> DefaultBody,
      texts |-> DefaultTexts, crash |-> "none", debug |-> FALSE ]

\* One page per distinguishable course of an attempt: the fields an attempt never
\* gets to look at are left at their default.  A page whose load timed out keeps
\* what had loaded of it.
Pages ==
    { p \in AllPages :
        /\ (~p.launch => p.goto = "ok" /\ p.crash = "none")
        /\ (p.crash = "context" => p.goto = "ok")
        /\ (p.goto # "ok" => p.crash = "none")
        /\ (~p.launch \/ p.goto # "ok" \/ p.crash = "context" => ~p.login)
        /\ (~p.login => ~p.form)
        /\ (~p.launch \/ p.goto = "error" \/ p.crash \in {"context", "wait"} =>
               p.body = DefaultBody /\ p.texts = DefaultTexts)
        /\ (p.debug => p.crash = "screenshot") }


\* What the probes of check_vpn_status meet: socket.gethostbyname resolves,
\* the HTTP GET of the proxy root answers with an accepted status, the TCP
\* connection to port 443 is made.
NetProbes == [ dns : BOOLEAN, http : BOOLEAN, tcp : BOOLEAN ]

\* What the three requests of test_proxy_access meet:
\*   direct  "clean" (200, no paywall word), "paywall" (200 with one),
\*           "other" (another status) or "failed" (the request raises)
\*   root    the GET of the proxy root returns
\*   login   the proxy login URL shows a "login" page, the "article", an
\*           "unclear" page, or the request "failed"
Preflights ==
    { [direct |-> "clean", root |-> TRUE, login |-> "login"],
      [direct |-> "paywall", root |-> TRUE, login |-> "article"],
      [direct |-> "other", root |-> TRUE, login |-> "unclear"],
      [direct |-> "failed", root |-> FALSE, login |-> "failed"] }

(***************************************************************************)
(* The functions of the program.                                           *)
(***************************************************************************)
\* the direct-PDF test made on the URL as it is written, without lower()
IsPdfUrl_case_sensitive(url) ==
    \/ EndsWith(url, <<".","p","d","f">>)
    \/ Contains(url, <<"/","p","d","f","/">>)
    \/ Contains(url, <<"d","o","w","n","l","o","a","d",".","p","d","f">>)
    \/ Contains(url, <<"/","g","e","t","p","d","f">>)
    \/ Contains(url, <<"p","d","f","?">>)
    \/ Contains(url, <<"p","d","f","=">>)

\* The direct-PDF test on url.lower(), written out twice in the source.
IsPdfUrl(url) ==
    LET url_lower == Lower(url) IN
        \/ EndsWith(url_lower, <<".","p","d","f">>)
        \/ Contains(url_lower, <<"/","p","d","f","/">>)
        \/ Contains(url_lower, <<"d","o","w","n","l","o","a","d",".","p","d","f">>)
        \/ Contains(url_lower, <<"/","g","e","t","p","d","f">>)
        \/ Contains(url_lower, <<"p","d","f","?">>)
        \/ Contains(url_lower, <<"p","d","f","=">>)

\* get_domain_info(url) -> (domain, needs_proxy)
get_domain_info(url) ==
    LET domain == Replace(Lower(netloc(url)), <<"w","w","w",".">>, <<>>) IN
        [ domain |-> domain,
          needs_proxy |-> \E blocked \in BLOCKED_DOMAINS : Contains(domain, blocked) ]

\* generate_ezproxy_urls(url) -> [(format_name, url)]
generate_ezproxy_urls(url) ==
    LET domain == netloc(url) IN
        << [ format_name |-> "login_url", url |-> EZPROXY_BASE \o quote(url) ],
           [ format_name |-> "prefix",
             url |-> Replace(url, <<":","/","/">>,
                             <<":","/","/">> \o domain
                                 \o <<".","p","r","o","x","y",".","l","b","l",".","g","o","v","/">>) ],
           [ format_name |-> "subdomain",
             url |-> Replace(url, <<":","/","/">> \o domain,
                             <<":","/","/","p","r","o","x","y","-","l","b","l","-","g","o","v",".">>
                                 \o domain) ] >>

\* a Playwright started without the `with` block: nothing ends it
sync_playwright_exit_leaves(b) == b

\* the exit of `with sync_playwright() as p`: Playwright is stopped, and the
\* browser it launched, if still open, ends with its driver
sync_playwright_exit(b) == IF b = "open" THEN "killed" ELSE b

\* check_proxy_reachable(): the TCP connection test
check_proxy_reachable(net) == net.tcp

\* check_proxy_http(): the status of the HTTP GET is one of 200, 302, 401, 403
check_proxy_http(net) == net.http

\* check_vpn_status(): when the name resolves the answer is True whatever the
\* HTTP test says; when it does not, the answer is the TCP test's
check_vpn_status(net) ==
    IF net.dns
    THEN IF check_proxy_http(net) THEN TRUE ELSE TRUE
    ELSE check_proxy_reachable(net)

\* test_proxy_access(url) -> results
test_proxy_access(pre) ==
    [ direct_access |-> (pre.direct = "clean"),
      proxy_reachable |-> pre.root,
      proxy_login_page |-> (pre.login \in {"login", "article"}),
      needs_auth |-> (pre.login = "login") ]

\* an authentication that goes to the login form without credentials
try_authentication_without_check(creds, page) == page.form

\* try_authentication(page): no credentials, no attempt; otherwise the first
\* login form found is filled in and submitted
try_authentication(creds, page) ==
    IF creds[1] = None \/ creds[2] = None
    THEN FALSE
    ELSE page.form

\* a scan that never finds a phrase
check_access_denied_never(page) == FALSE

\* check_access_denied(page): a phrase of ACCESS_DENIED_PHRASES in the lowered
\* text of the body; False when the text cannot be read
check_access_denied(page) ==
    IF page.body = Unreadable
    THEN FALSE
    ELSE \E phrase \in ACCESS_DENIED_PHRASES : Contains(Lower(page.body), phrase)

\* extract_content(page): the text of the first selector, in the order of
\* CONTENT_SELECTORS, that holds more than 200 characters; None without one
\* an extraction that takes the first selector with any text at all
ExtractFrom_first_present(texts, i) ==
    IF \E j \in i .. NumSelectors : texts[j] # Absent
    THEN texts[CHOOSE j \in i .. NumSelectors :
                   texts[j] # Absent /\ \A h \in i .. (j - 1) : texts[h] = Absent]
    ELSE NoContent

RECURSIVE ExtractFrom(_, _)
ExtractFrom(texts, i) ==
    IF i > NumSelectors
    THEN NoContent
    ELSE IF texts[i] # Absent /\ len(texts[i]) > MIN_CONTENT
         THEN texts[i]
         ELSE ExtractFrom(texts, i + 1)

extract_content(page) == ExtractFrom(page.texts, 1)

\* try_fetch_with_method(url, method_name) -> (success, content)
try_fetch_with_method(creds, page) ==
    LET failure == [ success |-> FALSE, content |-> NoContent ]
        content == extract_content(page)
    IN  IF ~page.launch THEN failure
        ELSE IF page.crash = "context" THEN failure
        ELSE IF page.goto # "ok" THEN failure
        ELSE IF page.login /\ ~try_authentication(creds, page) THEN failure
        ELSE IF page.crash = "wait" THEN failure
        ELSE IF check_access_denied(page) THEN failure
        ELSE IF content # NoContent /\ content # <<>> /\ len(content) > MIN_CONTENT
             THEN IF page.debug /\ page.crash = "screenshot"
                  THEN failure
                  ELSE [ success |-> TRUE, content |-> content ]
             ELSE failure

\* a cut without the marker
Truncate_without_marker(content) ==
    IF len(content) > MAX_ARTICLE_TEXT
    THEN TextTake(content, MAX_ARTICLE_TEXT)
    ELSE content

\* content[:MAX_ARTICLE_TEXT] + "\n\n...[truncated]" when the content is longer
Truncate(content) ==
    IF len(content) > MAX_ARTICLE_TEXT
    THEN TextConcat(TextTake(content, MAX_ARTICLE_TEXT), TRUNCATION_MARKER)
    ELSE content

\* what fetch_and_extract_html makes of the (success, content) of fetch:
\* (text, reason)
ExtractResult(result) ==
    IF result.success /\ result.content # NoContent /\ result.content # <<>>
    THEN [ text |-> Truncate(result.content),
           reason |-> "Extracted using AcademicArticleFetcher" ]
    ELSE [ text |-> <<>>,
           reason |-> "Failed to extract content using AcademicArticleFetcher" ]


(***************************************************************************)
(* search_articles: the library, the TF-IDF index (scikit-learn's           *)
(* TfidfVectorizer and cosine_similarity) and the two scorings.            *)
(* A score is a fraction [num, den]: tenths for the keyword score, the      *)
(* square of the cosine for the TF-IDF score (cosines are not negative, so  *)
(* the squares compare as the cosines do).                                  *)
(***************************************************************************)
\* None where a string of an article is expected
NoneStr == << "None" >>

\* Articles of a library: article.get("title", ""), .get("abstract", ""),
\* .get("text", ""); an imported record has the abstract None.
SearchArticles ==
    { \* "Cell growth study", no text
      [ title |-> <<"C","e","l","l"," ","g","r","o","w","t","h"," ","s","t","u","d","y">>,
        abstract |-> <<>>, text |-> <<>> ],
      \* "Unrelated", no text
      [ title |-> <<"U","n","r","e","l","a","t","e","d">>, abstract |-> <<>>, text |-> <<>> ],
      \* "Growth", text "cell growth"
      [ title |-> <<"G","r","o","w","t","h">>, abstract |-> <<>>,
        text |-> <<"c","e","l","l"," ","g","r","o","w","t","h">> ],
      \* "Cell", abstract "growth growth", no text
      [ title |-> <<"C","e","l","l">>,
        abstract |-> <<"g","r","o","w","t","h"," ","g","r","o","w","t","h">>, text |-> <<>> ],
      \* a failed import: "Growth", abstract None, no text
      [ title |-> <<"G","r","o","w","t","h">>, abstract |-> NoneStr, text |-> <<>> ],
      \* "Of", text "the": stop words only
      [ title |-> <<"O","f">>, abstract |-> <<>>, text |-> <<"t","h","e">> ],
      \* a successful import: "Cell", abstract None, text "cell"
      [ title |-> <<"C","e","l","l">>, abstract |-> NoneStr, text |-> <<"c","e","l","l">> ],
      \* "growth growth", no text
      [ title |-> <<"g","r","o","w","t","h"," ","g","r","o","w","t","h">>,
        abstract |-> <<>>, text |-> <<>> ] }

\* "growth", "Cell growth", "the"
Queries ==
    { <<"g","r","o","w","t","h">>,
      <<"C","e","l","l"," ","g","r","o","w","t","h">>,
      <<"t","h","e">> }

\* top_k: int = 5
DEFAULT_TOP_K == 5

\* the values of top_k: the small ones and the default
TopKs == (1 .. MaxTopK) \cup { DEFAULT_TOP_K }

Libraries == UNION { [ 1 .. n -> SearchArticles ] : n \in 0 .. MaxLibrary }

\* Articles that hold the stop word "the" 0 to 2 times in the title and 0 or
\* 1 time in abstract and text: the index of a library of them is degenerate
StopWordArticles ==
    { [ title |-> t, abstract |-> a, text |-> x ] :
        t \in { <<>>, <<"t","h","e">>, <<"t","h","e"," ","t","h","e">> },
        a \in { <<>>, <<"t","h","e">> },
        x \in { <<>>, <<"t","h","e">> } }

\* the stop-word articles, "Of" with the text "the", and "Growth" with the
\* text "cell growth", which gives the library an index
KeywordArticles ==
    StopWordArticles
        \cup { [ title |-> <<"O","f">>, abstract |-> <<>>, text |-> <<"t","h","e">> ],
               [ title |-> <<"G","r","o","w","t","h">>, abstract |-> <<>>,
                 text |-> <<"c","e","l","l"," ","g","r","o","w","t","h">> ] }

KeywordLibraries == UNION { [ 1 .. n -> KeywordArticles ] : n \in 0 .. MaxKeywordLibrary }

\* the words of the model's strings that are in scikit-learn's English stop list
STOP_WORDS == { <<"t","h","e">>, <<"o","f">> }

\* the first word of a string that starts with one
RECURSIVE UpToSpace(_)
UpToSpace(s) ==
    IF s = <<>> \/ Head(s) = " " THEN <<>> ELSE << Head(s) >> \o UpToSpace(Tail(s))

\* the words of a string, in order
RECURSIVE Words(_)
Words(s) ==
    IF s = <<>> THEN <<>>
    ELSE IF Head(s) = " " THEN Words(Tail(s))
    ELSE << UpToSpace(s) >> \o Words(Drop(s, Len(UpToSpace(s))))

\* the analyzer of TfidfVectorizer(stop_words="english"): lower case, the
\* tokens of two word characters or more, without the stop words
Analyze(s) ==
    LET keep(w) == Len(w) >= 2 /\ w \notin STOP_WORDS
    IN  SelectSeq(Words(Lower(s)), keep)

\* a.get("text", "") or a.get("abstract", "") or "", stripped
DocText(a) ==
    strip(IF a.text # NoneStr /\ a.text # <<>> THEN a.text
          ELSE IF a.abstract # NoneStr /\ a.abstract # <<>> THEN a.abstract
          ELSE <<>>)

\* the terms a token list holds
Terms(tokens) == { tokens[k] : k \in DOMAIN tokens }

\* vectorizer.vocabulary_ after fit_transform(texts)
Vocabulary(articles) ==
    UNION { Terms(Analyze(DocText(articles[i]))) : i \in DOMAIN articles }

\* build_tfidf_index(articles) returns (None, None)
build_tfidf_index_is_none(articles) ==
    \/ articles = <<>>
    \/ \A i \in DOMAIN articles : DocText(articles[i]) = <<>>
    \/ Vocabulary(articles) = {}

\* idf = ln((1 + n) / (1 + df)) + 1 (smooth_idf), in quarters, rounded, for a
\* library of n documents (row n) of which df hold the term (column df)
IDF_QUARTERS ==
    << << 4 >>,
       << 6, 4 >>,
       << 7, 5, 4 >>,
       << 8, 6, 5, 4 >>,
       << 8, 7, 6, 5, 4 >> >>

\* number of documents that hold the term
DocumentFrequency(articles, term) ==
    Cardinality({ i \in DOMAIN articles : term \in Terms(Analyze(DocText(articles[i]))) })

\* the TF-IDF weight of each term of the vocabulary in a string (before the
\* normalisation, which the cosine undoes)
Weights(articles, s) ==
    [ term \in Vocabulary(articles) |->
        Cardinality({ k \in DOMAIN Analyze(s) : Analyze(s)[k] = term })
            * IDF_QUARTERS[Len(articles)][DocumentFrequency(articles, term)] ]

RECURSIVE SumOver(_, _)
SumOver(f, S) ==
    IF S = {} THEN 0
    ELSE LET x == CHOOSE x \in S : TRUE IN f[x] + SumOver(f, S \ {x})

DotProduct(u, v) == SumOver([ term \in DOMAIN u |-> u[term] * v[term] ], DOMAIN u)

\* cosine_similarity of two weight vectors, squared; 0 when one of them is null
CosineSquared(u, v) ==
    IF DotProduct(u, u) = 0 \/ DotProduct(v, v) = 0
    THEN [ num |-> 0, den |-> 1 ]
    ELSE [ num |-> DotProduct(u, v) * DotProduct(u, v),
           den |-> DotProduct(u, u) * DotProduct(v, v) ]

\* sims = cosine_similarity(q_vec, X).flatten()
Similarities(q, articles) ==
    [ i \in DOMAIN articles |->
        CosineSquared(Weights(articles, q), Weights(articles, DocText(articles[i]))) ]

\* a keyword score without the bonus of the title match
KeywordScore_without_bonus(query_lower, a) ==
    [ num |-> 5 * str_count(Lower(a.title), query_lower)
              + 3 * str_count(Lower(a.abstract), query_lower)
              + 1 * str_count(Lower(a.text), query_lower),
      den |-> 10 ]

\* the score of the keyword fallback, in tenths: 2.0 for the query in the
\* title, 0.5, 0.3 and 0.1 for each occurrence in title, abstract and text
KeywordScore(query_lower, a) ==
    [ num |-> (IF Contains(Lower(a.title), query_lower) THEN 20 ELSE 0)
              + 5 * str_count(Lower(a.title), query_lower)
              + 3 * str_count(Lower(a.abstract), query_lower)
              + 1 * str_count(Lower(a.text), query_lower),
      den |-> 10 ]

\* .lower() of None raises AttributeError
KeywordRaises(articles) ==
    \E i \in DOMAIN articles :
        NoneStr \in { articles[i].title, articles[i].abstract, articles[i].text }

\* comparison of two scores of the same kind
ScoreLess(a, b) == a.num * b.den < b.num * a.den

ScorePositive(a) == a.num > 0

\* a sort that leaves the list as it is
SortByScoreDescending_unsorted(scored) == scored

\* scored.sort(key=lambda x: x[1], reverse=True): a stable sort, the entries of
\* equal score staying in the order they had
RECURSIVE SortByScoreDescending(_)
SortByScoreDescending(scored) ==
    IF scored = <<>> THEN <<>>
    ELSE LET front == SortByScoreDescending(SubSeq(scored, 1, Len(scored) - 1))
             x == scored[Len(scored)]
             before == Cardinality({ k \in DOMAIN front : ~ScoreLess(front[k].score, x.score) })
         IN  SubSeq(front, 1, before) \o << x >> \o SubSeq(front, before + 1, Len(front))

\* a keyword fallback that cuts the list before it sorts it
KeywordSearch_cut_before_sort(q, articles, k) ==
    LET query_lower == Lower(q)
        all == [ i \in DOMAIN articles |->
                   [ index |-> i, score |-> KeywordScore(query_lower, articles[i]) ] ]
        positive(e) == ScorePositive(e.score)
        scored == SelectSeq(all, positive)
    IN  SortByScoreDescending(Take(scored, k))

\* the keyword fallback of search_articles
KeywordSearch(q, articles, k) ==
    LET query_lower == Lower(q)
        all == [ i \in DOMAIN articles |->
                   [ index |-> i, score |-> KeywordScore(query_lower, articles[i]) ] ]
        positive(e) == ScorePositive(e.score)
        scored == SelectSeq(all, positive)
    IN  Take(SortByScoreDescending(scored), k)

\* the results of sims.argsort(): the orders of the indices in which the
\* similarities ascend (the order among equal ones is the sort's)
ArgSorts(sims) ==
    { order \in [ DOMAIN sims -> DOMAIN sims ] :
        /\ \A i \in DOMAIN sims : \E j \in DOMAIN sims : order[j] = i
        /\ \A i, j \in DOMAIN sims : i < j => ~ScoreLess(sims[order[j]], sims[order[i]]) }

\* the TF-IDF path of search_articles for one result of argsort:
\* top_idx = order[::-1][:top_k]; the entries of top_idx with sims[i] > 0
TfidfSearch(sims, order, k) ==
    LET n == Len(order)
        reversed == [ j \in 1 .. n |-> order[n + 1 - j] ]
        top_idx == Take(reversed, k)
        all == [ j \in DOMAIN top_idx |-> [ index |-> top_idx[j], score |-> sims[top_idx[j]] ] ]
        positive(e) == ScorePositive(e.score)
    IN  SelectSeq(all, positive)

(***************************************************************************)
(* Log entries and article records of process_article_batch.               *)
(*   mark        "skip" / "ok" / "fail" for the entry's leading symbol,    *)
(*               "summary" for the lines of the closing summary            *)
(*   global_idx  start_idx + idx + 1                                       *)
(*   text        the fixed part of the message                             *)
(*   chars       the number the message holds: len(text) of an import,     *)
(*               the length of the (truncated) exception message, a count  *)
(*   exc_type    type(e).__name__                                          *)
(*   url         the URL or domain the message holds                       *)
(***************************************************************************)
LogEntry(mark, global_idx, text, chars, exc_type, url) ==
    [ mark |-> mark, global_idx |-> global_idx, text |-> text, chars |-> chars,
      exc_type |-> exc_type, url |-> url ]

LogSkipDuplicate(global_idx) ==
    LogEntry("skip", global_idx, "Skipped (duplicate or no URL)", 0, "", <<>>)

LogSkipPdf(global_idx, url) ==
    LogEntry("skip", global_idx, "Skipped PDF URL", 0, "", Take(url, LOG_URL_LIMIT))

LogImported(global_idx, reason, text) ==
    LogEntry("ok", global_idx, reason, len(text), "", <<>>)

LogFailed(global_idx, reason) == LogEntry("fail", global_idx, reason, 0, "", <<>>)

\* the entry with the whole of str(e)
LogUnexpected_untruncated(global_idx, exc) ==
    LogEntry("fail", global_idx, "Unexpected error", exc.msg_len, exc.type, <<>>)

\* "Unexpected error: {type(e).__name__}: {str(e)[:100]}"
LogUnexpected(global_idx, exc) ==
    LogEntry("fail", global_idx, "Unexpected error",
             IF exc.msg_len > EXC_MSG_LIMIT THEN EXC_MSG_LIMIT ELSE exc.msg_len,
             exc.type, <<>>)

\* the dict appended when text is non-empty; it has no import_reason key
SuccessArticle(id, title, url, text) ==
    [ id |-> id, title |-> title, authors |-> <<>>, abstract |-> None, url |-> url,
      text |-> text, import_status |-> "success" ]

\* the failed dict with the reason left out
FailedArticle_without_reason(id, title, url, import_reason) ==
    [ id |-> id, title |-> title, authors |-> <<>>, abstract |-> None, url |-> url,
      text |-> <<>>, import_status |-> "failed" ]

\* the dict appended when text is empty and import_reason is not
FailedArticle(id, title, url, import_reason) ==
    [ id |-> id, title |-> title, authors |-> <<>>, abstract |-> None, url |-> url,
      text |-> <<>>, import_status |-> "failed", import_reason |-> import_reason ]

\* `domain in log`: of the messages of the model only the 'Skipped PDF URL'
\* entry holds text taken from the URL
LogMentions(log, domain) == Contains(log.url, domain)

\* blocked_summary: for each blocked domain, the number of log entries that
\* mention it, the domains mentioned by none being absent
blocked_summary(entries) ==
    LET count(d) == Cardinality({ i \in 1 .. Len(entries) : LogMentions(entries[i], d) })
    IN  [ d \in { b \in BLOCKED_DOMAINS : count(b) > 0 } |-> count(d) ]

\* the lines appended when blocked_summary is not empty: two header lines, one
\* line per domain by descending count, five lines of advice
SummaryLines(entries) ==
    LET summary == blocked_summary(entries)
        doms == DOMAIN summary
        ranked == CHOOSE seq \in [ 1 .. Cardinality(doms) -> doms ] :
                      /\ \A d \in doms : \E i \in DOMAIN seq : seq[i] = d
                      /\ \A i, j \in DOMAIN seq : i < j => summary[seq[i]] >= summary[seq[j]]
    IN  IF doms = {}
        THEN <<>>
        ELSE << LogEntry("summary", 0, "", 0, "", <<>>),
                LogEntry("summary", 0, "SUMMARY: Blocked Domains", 0, "", <<>>) >>
             \o [ i \in 1 .. Cardinality(doms) |->
                    LogEntry("summary", 0, "articles", summary[ranked[i]], "", ranked[i]) ]
             \o << LogEntry("summary", 0, "", 0, "", <<>>),
                   LogEntry("summary", 0, "To access blocked content:", 0, "", <<>>),
                   LogEntry("summary", 0, "1. Institutional login", 0, "", <<>>),
                   LogEntry("summary", 0, "2. VPN", 0, "", <<>>),
                   LogEntry("summary", 0, "3. Library proxy", 0, "", <<>>),
                   LogEntry("summary", 0, "4. DOI alternative", 0, "", <<>>) >>


(***************************************************************************)
(* The state.                                                              *)
(***************************************************************************)
VARIABLES
    \* process_article_batch: parameters
    items,              \* the candidate links of the batch
    start_idx,          \* position of the batch in the fetched links
    seen_at_call,       \* existing_urls as the caller passed it
    credentials,        \* (ezproxy_username, ezproxy_password)
    \* process_article_batch: locals
    pc,                 \* "loop": between two items; "fetch": inside
                        \* fetch_and_extract_html; "done": returned
    idx,                \* number of items the loop is through with
    existing_urls,      \* the seen-URL set, added to in place
    new_articles,       \* the records to return
    logs,               \* the log to return
    imported,           \* the count to return
    fetch_calls,        \* the idx of every item fetch_and_extract_html was called for
    raised,             \* the exceptions those calls raised, each with its idx
    \* AcademicArticleFetcher.fetch: locals
    fpc,                \* "idle", "strategy1", "strategy2", "strategy3", "returned"
    needs_proxy,
    vpn_connected,
    test_results,
    ez_idx,             \* number of proxy forms the loop of strategy 2 is through with
    attempts,           \* the calls of try_fetch_with_method made so far
    fetch_result,       \* (success, content) as returned
    \* AcademicArticleFetcher.try_fetch_with_method: one call, step by step
    page,               \* what the browser meets
    apc,                \* "idle", "launch", "context", "goto", "login", "wait",
                        \* "scan", "extract", "leave", "except", "returned"
    browser,            \* "none", "open", "closed" (browser.close()), "killed"
                        \* (ended with the Playwright driver)
    submitted,          \* a login form was filled in and submitted
    exit_path,          \* the way the call left the function
    attempt_result,     \* (success, content) as returned
    ladder,             \* what fetch does with the result: "returns", "goes on"
    \* search_articles: one call
    query,
    library,            \* the articles
    top_k,
    spc,                \* "idle", "called", "keyword", "tfidf", "returned", "raised"
    results,            \* the list returned: (index of the article, score)
    search_path,        \* the return the call took: "empty", "keyword", "tfidf"
    \* data/articles.json: the directory entry, the files, one writer after
    \* another and one reader
    fs_path,            \* the file ARTICLES_PATH names: an index of inodes, 0 for none
    inodes,             \* the content of each file: the chunks written so far
    wpc,                \* "idle", "temp" (save_articles), "inplace" (fetch_and_cache)
    w_inode,            \* the file the writer has open
    writes,             \* number of writes begun: the version being written
    rpc,                \* "idle", "start", "exists", "reading", "returned"
    r_inode,            \* the file the reader has open
    r_buf,              \* what the reader has read
    loaded,             \* what the load returned
    \* run_app: the Import Batch handler
    persisted,          \* the records of the batch that save_articles has written
    \* AcademicArticleFetcher.fetch: what the network is like
    probes,             \* what the probes of check_vpn_status meet
    \* run_app: the session
    lean_fetched_links, \* st.session_state["lean_fetched_links"], [] when not set
    lean_import_pos,    \* st.session_state.lean_import_pos
    submissions,        \* the calls of process_article_batch: (start, sublist)
    clicks              \* number of button clicks so far

batch_vars == << items, start_idx, seen_at_call, credentials, pc, idx, existing_urls,
                 new_articles, logs, imported, fetch_calls, raised >>

fetch_vars == << fpc, needs_proxy, vpn_connected, test_results, ez_idx, attempts,
                 fetch_result >>

attempt_vars == << page, apc, browser, submitted, exit_path, attempt_result, ladder >>

search_vars == << query, library, top_k, spc, results, search_path >>

file_vars == << fs_path, inodes, wpc, w_inode, writes, rpc, r_inode, r_buf, loaded >>

\* the state outside the fetching and the search
app_vars == << lean_fetched_links, lean_import_pos, submissions, clicks >>

rest_vars == << file_vars, persisted, probes, app_vars >>

\* the variables the batch importer and its fetches leave alone
other_vars == << attempt_vars, search_vars, rest_vars >>

vars == << items, start_idx, seen_at_call, credentials, pc, idx, existing_urls,
           new_articles, logs, imported, fetch_calls, raised,
           fpc, needs_proxy, vpn_connected, test_results, ez_idx, attempts, fetch_result,
           page, apc, browser, submitted, exit_path, attempt_result, ladder,
           query, library, top_k, spc, results, search_path,
           fs_path, inodes, wpc, w_inode, writes, rpc, r_inode, r_buf, loaded,
           persisted, probes,
           lean_fetched_links, lean_import_pos, submissions, clicks >>

\* every list of at most MaxItems candidate links
Batches == UNION { [ 1 .. n -> Links ] : n \in 1 .. MaxItems }

NoResult == [ success |-> FALSE, content |-> NoContent ]

NoTests ==
    [ direct_access |-> FALSE, proxy_reachable |-> FALSE, proxy_login_page |-> FALSE,
      needs_auth |-> FALSE ]

\* no fetch under way
FetchIdle ==
    /\ fpc = "idle"
    /\ needs_proxy = FALSE
    /\ vpn_connected = FALSE
    /\ test_results = NoTests
    /\ ez_idx = 0
    /\ attempts = <<>>
    /\ fetch_result = NoResult

\* no call of try_fetch_with_method followed step by step
AttemptIdle ==
    /\ page = NoPage
    /\ apc = "idle"
    /\ browser = "none"
    /\ submitted = FALSE
    /\ exit_path = ""
    /\ attempt_result = NoResult
    /\ ladder = ""

\* no call of search_articles
SearchIdle ==
    /\ query = <<>>
    /\ library = <<>>
    /\ top_k = 0
    /\ spc = "idle"
    /\ results = <<>>
    /\ search_path = ""

\* what a load returns: the outcome and, for a parsed file, its chunks
NotLoaded == [ outcome |-> "none", content |-> <<>> ]

\* no file operation
FileIdle ==
    /\ fs_path = 0
    /\ inodes = <<>>
    /\ wpc = "idle"
    /\ w_inode = 0
    /\ writes = 0
    /\ rpc = "idle"
    /\ r_inode = 0
    /\ r_buf = <<>>
    /\ loaded = NotLoaded

\* a network on which no probe succeeds
NoProbes == [ dns |-> FALSE, http |-> FALSE, tcp |-> FALSE ]

\* a session that has just begun: if "lean_import_pos" not in
\* st.session_state: st.session_state.lean_import_pos = 0
AppIdle ==
    /\ lean_fetched_links = <<>>
    /\ lean_import_pos = 0
    /\ submissions = <<>>
    /\ clicks = 0

RestIdle == FileIdle /\ persisted = <<>> /\ probes = NoProbes /\ AppIdle

Init ==
    /\ items \in Batches
    /\ start_idx = 0
    /\ seen_at_call \in SUBSET SeenBefore
    /\ credentials \in Credentials
    /\ pc = "loop"
    /\ idx = 0
    /\ existing_urls = seen_at_call
    /\ new_articles = <<>>
    /\ logs = <<>>
    /\ imported = 0
    /\ fetch_calls = <<>>
    /\ raised = <<>>
    /\ FetchIdle
    /\ AttemptIdle
    /\ SearchIdle
    /\ RestIdle

(***************************************************************************)
(* process_article_batch: the loop over the items.                         *)
(***************************************************************************)
\* the item the loop is at, and what the loop derives from it
item == items[idx + 1]
global_idx == start_idx + idx + 1
url == item.url
title == IF item.title # Missing THEN item.title ELSE url

AtItem == pc = "loop" /\ idx < Len(items)

\* the test without the membership in existing_urls
IsDuplicateOrNoUrl_no_url_only(u, seen) == u = Missing

\* if not url or url in existing_urls
IsDuplicateOrNoUrl(u, seen) == u = Missing \/ u \in seen

SkipDuplicate ==
    /\ AtItem
    /\ IsDuplicateOrNoUrl(url, existing_urls)
    /\ logs' = Append(logs, LogSkipDuplicate(global_idx))
    /\ idx' = idx + 1
    /\ UNCHANGED << items, start_idx, seen_at_call, credentials, pc, existing_urls,
                    new_articles, imported, fetch_calls, raised >>
    /\ UNCHANGED fetch_vars
    /\ UNCHANGED other_vars

SkipPdf ==
    /\ AtItem
    /\ ~IsDuplicateOrNoUrl(url, existing_urls)
    /\ IsPdfUrl(url)
    /\ logs' = Append(logs, LogSkipPdf(global_idx, url))
    /\ idx' = idx + 1
    /\ UNCHANGED << items, start_idx, seen_at_call, credentials, pc, existing_urls,
                    new_articles, imported, fetch_calls, raised >>
    /\ UNCHANGED fetch_vars
    /\ UNCHANGED other_vars


(***************************************************************************)
(* AcademicArticleFetcher.fetch: the ladder of attempts.                   *)
(***************************************************************************)
\* the condition of strategy 1 without its first disjunct
Strategy1Applies_unblocked_only(vpn, needs, direct) == ~needs \/ direct

\* if vpn_connected or not needs_proxy or test_results['direct_access']
Strategy1Applies(vpn, needs, direct) == vpn \/ ~needs \/ direct

\* if needs_proxy and vpn_connected
Strategy2Applies(vpn, needs) == needs /\ vpn

\* the condition of strategy 3 without its second conjunct
Strategy3Applies_any_vpn(vpn, needs) == needs

\* if needs_proxy and not vpn_connected
Strategy3Applies(vpn, needs) == needs /\ ~vpn

\* a ladder that goes on after a successful attempt
ShortCircuits_never(success) == FALSE

\* if success: return True, content
ShortCircuits(success) == success

\* The stage fetch goes to once it is through with stage `after` (0: none yet):
\* the next one whose condition holds, "returned" when none is left.
StageAfter(after, vpn, needs, direct) ==
    IF after < 1 /\ Strategy1Applies(vpn, needs, direct) THEN "strategy1"
    ELSE IF after < 2 /\ Strategy2Applies(vpn, needs) THEN "strategy2"
    ELSE IF after < 3 /\ Strategy3Applies(vpn, needs) THEN "strategy3"
    ELSE "returned"

Attempt(method, target, success, content) ==
    [ method |-> method, url |-> target, success |-> success, content |-> content ]

\* One call of try_fetch_with_method(target, method) and the `if success`
\* that follows it; `next` is where fetch goes on when it does not return.
TryMethod(method, target, next) ==
    \E result \in { try_fetch_with_method(credentials, p) : p \in Pages } :
            /\ attempts' = Append(attempts, Attempt(method, target, result.success, result.content))
            /\ IF ShortCircuits(result.success)
               THEN fpc' = "returned" /\ fetch_result' = result
               ELSE fpc' = next /\ fetch_result' = NoResult

\* The batch loop calls fetch_and_extract_html for an item it does not skip (the
\* PDF test the orchestrator repeats is the one the loop has just made), which
\* builds a fetcher and calls fetch: domain classification, VPN check and
\* pre-flight tests, up to the strategy selection.
CallFetch ==
    /\ AtItem
    /\ ~IsDuplicateOrNoUrl(url, existing_urls)
    /\ ~IsPdfUrl(url)
    /\ pc' = "fetch"
    /\ fetch_calls' = Append(fetch_calls, idx)
    /\ \E net \in NetProbes, pre \in Preflights :
          /\ needs_proxy' = get_domain_info(url).needs_proxy
          /\ vpn_connected' = check_vpn_status(net)
          /\ test_results' = test_proxy_access(pre)
          /\ fpc' = StageAfter(0, vpn_connected', needs_proxy', test_results'.direct_access)
    /\ UNCHANGED << ez_idx, attempts, fetch_result >>
    /\ UNCHANGED << items, start_idx, seen_at_call, credentials, idx, existing_urls,
                    new_articles, logs, imported, raised >>
    /\ UNCHANGED other_vars

\* Strategy 1: direct access
Strategy1 ==
    /\ pc = "fetch" /\ fpc = "strategy1"
    /\ TryMethod("Direct Access", url,
                 StageAfter(1, vpn_connected, needs_proxy, test_results.direct_access))
    /\ UNCHANGED << needs_proxy, vpn_connected, test_results, ez_idx >>
    /\ UNCHANGED batch_vars
    /\ UNCHANGED other_vars

\* Strategy 2: one turn of the loop over generate_ezproxy_urls(url)
Strategy2 ==
    /\ pc = "fetch" /\ fpc = "strategy2"
    /\ LET ezproxy_urls == generate_ezproxy_urls(url)
           form == ezproxy_urls[ez_idx + 1]
       IN  /\ TryMethod("EZproxy - " \o form.format_name, form.url,
                        IF ez_idx + 1 < Len(ezproxy_urls)
                        THEN "strategy2"
                        ELSE StageAfter(2, vpn_connected, needs_proxy,
                                        test_results.direct_access))
           /\ ez_idx' = ez_idx + 1
    /\ UNCHANGED << needs_proxy, vpn_connected, test_results >>
    /\ UNCHANGED batch_vars
    /\ UNCHANGED other_vars

\* Strategy 3: direct access (fallback)
Strategy3 ==
    /\ pc = "fetch" /\ fpc = "strategy3"
    /\ TryMethod("Direct Access (Fallback)", url,
                 StageAfter(3, vpn_connected, needs_proxy, test_results.direct_access))
    /\ UNCHANGED << needs_proxy, vpn_connected, test_results, ez_idx >>
    /\ UNCHANGED batch_vars
    /\ UNCHANGED other_vars

(***************************************************************************)
(* process_article_batch: what the loop does with the outcome of the call. *)
(***************************************************************************)
\* if extracted and len(extracted) > 200
Qualifies(extracted) == extracted # <<>> /\ len(extracted) > MIN_CONTENT

\* The records the loop appends for an item: text and import_reason are the
\* locals of the same names.
RecordsFor(id, t, u, text, import_reason) ==
    IF text # <<>> THEN << SuccessArticle(id, t, u, text) >>
    ELSE IF import_reason # "" THEN << FailedArticle(id, t, u, import_reason) >>
    ELSE << >>

\* fetch has returned: fetch_and_extract_html turns its result into
\* (extracted, reason), and the loop logs it and appends the record.
FinishItem ==
    /\ pc = "fetch" /\ fpc = "returned"
    /\ LET extracted == ExtractResult(fetch_result).text
           reason == ExtractResult(fetch_result).reason
           text == IF Qualifies(extracted) THEN extracted ELSE <<>>
           import_reason == IF Qualifies(extracted) THEN "" ELSE reason
           records == RecordsFor(Len(new_articles) + 1, title, url, text, import_reason)
       IN  /\ logs' = Append(logs, IF Qualifies(extracted)
                                   THEN LogImported(global_idx, reason, text)
                                   ELSE LogFailed(global_idx, reason))
           /\ new_articles' = new_articles \o records
           /\ existing_urls' = IF records # <<>> THEN existing_urls \cup {url}
                               ELSE existing_urls
           /\ imported' = IF text # <<>> THEN imported + 1 ELSE imported
    /\ idx' = idx + 1
    /\ pc' = "loop"
    /\ fpc' = "idle"
    /\ needs_proxy' = FALSE
    /\ vpn_connected' = FALSE
    /\ test_results' = NoTests
    /\ ez_idx' = 0
    /\ attempts' = <<>>
    /\ fetch_result' = NoResult
    /\ UNCHANGED << items, start_idx, seen_at_call, credentials, fetch_calls, raised >>
    /\ UNCHANGED other_vars

\* The call of fetch_and_extract_html raises (an exception that nothing below
\* catches, such as the ValueError of urlparse or the UnicodeEncodeError of a
\* print): the loop logs the type and the truncated message, and goes on to the
\* next item with `continue`, before the code that appends a record.
FetchRaises ==
    /\ AtItem
    /\ ~IsDuplicateOrNoUrl(url, existing_urls)
    /\ ~IsPdfUrl(url)
    /\ \E exc \in Exceptions :
          /\ logs' = Append(logs, LogUnexpected(global_idx, exc))
          /\ raised' = Append(raised, [ idx |-> idx, exc |-> exc ])
    /\ fetch_calls' = Append(fetch_calls, idx)
    /\ idx' = idx + 1
    /\ UNCHANGED << items, start_idx, seen_at_call, credentials, pc, existing_urls,
                    new_articles, imported >>
    /\ UNCHANGED fetch_vars
    /\ UNCHANGED other_vars

\* The loop is over: the summary of blocked domains is appended and the
\* function returns (new_articles, logs, imported).
Return ==
    /\ pc = "loop" /\ idx = Len(items)
    /\ logs' = logs \o SummaryLines(logs)
    /\ pc' = "done"
    /\ UNCHANGED << items, start_idx, seen_at_call, credentials, idx, existing_urls,
                    new_articles, imported, fetch_calls, raised >>
    /\ UNCHANGED fetch_vars
    /\ UNCHANGED other_vars

Next ==
    \/ SkipDuplicate
    \/ SkipPdf
    \/ CallFetch
    \/ Strategy1
    \/ Strategy2
    \/ Strategy3
    \/ FinishItem
    \/ FetchRaises
    \/ Return

Spec == Init /\ [][Next]_vars

\* Every call made in the loop returns or raises within its own timeout, so
\* the single thread always takes its next step.
FairSpec == Spec /\ WF_vars(Next)

TypeOK ==
    /\ pc \in {"loop", "fetch", "done"}
    /\ fpc \in {"idle", "strategy1", "strategy2", "strategy3", "returned"}
    /\ idx \in 0 .. Len(items)
    /\ ez_idx \in 0 .. 3
    /\ imported \in 0 .. Len(new_articles)


(***************************************************************************)
(* AcademicArticleFetcher.fetch on a network whose state is known: the     *)
(* fetch of the one link of a batch, from the probes to its return.        *)
(***************************************************************************)
ProbeInit ==
    /\ items \in [ 1 .. 1 -> { l \in Links : l.url \in { UrlBlocked, UrlOpen } } ]
    /\ start_idx = 0
    /\ seen_at_call = {}
    /\ credentials \in Credentials
    /\ pc = "loop"
    /\ idx = 0
    /\ existing_urls = seen_at_call
    /\ new_articles = <<>>
    /\ logs = <<>>
    /\ imported = 0
    /\ fetch_calls = <<>>
    /\ raised = <<>>
    /\ FetchIdle
    /\ AttemptIdle
    /\ SearchIdle
    /\ FileIdle
    /\ persisted = <<>>
    /\ probes \in NetProbes
    /\ AppIdle

\* fetch(url) up to the strategy selection, on the network of `probes`
ProbeAndSelect ==
    /\ AtItem
    /\ ~IsDuplicateOrNoUrl(url, existing_urls)
    /\ ~IsPdfUrl(url)
    /\ pc' = "fetch"
    /\ fetch_calls' = Append(fetch_calls, idx)
    /\ \E pre \in Preflights :
          /\ needs_proxy' = get_domain_info(url).needs_proxy
          /\ vpn_connected' = check_vpn_status(probes)
          /\ test_results' = test_proxy_access(pre)
          /\ fpc' = StageAfter(0, vpn_connected', needs_proxy', test_results'.direct_access)
    /\ UNCHANGED << ez_idx, attempts, fetch_result >>
    /\ UNCHANGED << items, start_idx, seen_at_call, credentials, idx, existing_urls,
                    new_articles, logs, imported, raised >>
    /\ UNCHANGED other_vars

ProbeNext ==
    \/ ProbeAndSelect
    \/ Strategy1
    \/ Strategy2
    \/ Strategy3

ProbeSpec == ProbeInit /\ [][ProbeNext]_vars

(***************************************************************************)
(* run_app, Import Batch: the handler calls process_article_batch, extends *)
(* the library by the records it returns and saves it.  The run can be     *)
(* interrupted at any point before that (the session ends, the script is   *)
(* rerun or stopped, the process is killed).                               *)
(***************************************************************************)
ImportInit ==
    /\ items \in Batches
    /\ start_idx = 0
    /\ seen_at_call \in SUBSET SeenBefore
    /\ credentials \in Credentials
    /\ pc = "loop"
    /\ idx = 0
    /\ existing_urls = seen_at_call
    /\ new_articles = <<>>
    /\ logs = <<>>
    /\ imported = 0
    /\ fetch_calls = <<>>
    /\ raised = <<>>
    /\ FetchIdle
    /\ AttemptIdle
    /\ SearchIdle
    /\ RestIdle

\* if new_articles: articles.extend(new_articles); save_articles(articles)
SaveBatch ==
    /\ pc = "done"
    /\ persisted' = new_articles
    /\ pc' = "saved"
    /\ UNCHANGED << items, start_idx, seen_at_call, credentials, idx, existing_urls,
                    new_articles, logs, imported, fetch_calls, raised >>
    /\ UNCHANGED << fetch_vars, attempt_vars, search_vars, file_vars, probes, app_vars >>

\* the run ends before the handler has saved: what it held in memory is gone,
\* what is on disk stays
Interrupt ==
    /\ pc \in { "loop", "fetch", "done" }
    /\ pc' = "interrupted"
    /\ UNCHANGED << items, start_idx, seen_at_call, credentials, idx, existing_urls,
                    new_articles, logs, imported, fetch_calls, raised >>
    /\ UNCHANGED << fetch_vars, attempt_vars, search_vars, rest_vars >>

ImportNext ==
    \/ SkipDuplicate
    \/ SkipPdf
    \/ CallFetch
    \/ Strategy1
    \/ Strategy2
    \/ Strategy3
    \/ FinishItem
    \/ FetchRaises
    \/ Return
    \/ SaveBatch
    \/ Interrupt

ImportSpec == ImportInit /\ [][ImportNext]_vars

(***************************************************************************)
(* AcademicArticleFetcher.try_fetch_with_method, one call step by step:    *)
(* the life of the browser it launches.                                    *)
(***************************************************************************)
\* no batch under way
BatchIdle ==
    /\ items = <<>>
    /\ start_idx = 0
    /\ seen_at_call = {}
    /\ pc = "idle"
    /\ idx = 0
    /\ existing_urls = {}
    /\ new_articles = <<>>
    /\ logs = <<>>
    /\ imported = 0
    /\ fetch_calls = <<>>
    /\ raised = <<>>

AttemptInit ==
    /\ BatchIdle
    /\ credentials \in Credentials
    /\ FetchIdle
    /\ SearchIdle
    /\ RestIdle
    /\ page \in Pages
    /\ apc = "launch"
    /\ browser = "none"
    /\ submitted = FALSE
    /\ exit_path = ""
    /\ attempt_result = NoResult
    /\ ladder = ""

\* what no step of the attempt changes
attempt_frame == << batch_vars, fetch_vars, search_vars, rest_vars, page >>

\* an exception is raised inside the `with` block
Raise ==
    /\ apc' = "except"
    /\ UNCHANGED << browser, submitted, exit_path, attempt_result, ladder >>

\* browser.close(); return success, content
CloseAndReturn(path, success, content) ==
    /\ browser' = "closed"
    /\ exit_path' = path
    /\ attempt_result' = [ success |-> success, content |-> content ]
    /\ apc' = "leave"
    /\ UNCHANGED << submitted, ladder >>

\* the next statement
GoOn(next) ==
    /\ apc' = next
    /\ UNCHANGED << browser, submitted, exit_path, attempt_result, ladder >>

\* with sync_playwright() as p: browser = p.chromium.launch(...)
Launch ==
    /\ apc = "launch"
    /\ IF page.launch
       THEN /\ browser' = "open"
            /\ apc' = "context"
            /\ UNCHANGED << submitted, exit_path, attempt_result, ladder >>
       ELSE Raise
    /\ UNCHANGED attempt_frame

\* context = browser.new_context(...); page = context.new_page()
NewContext ==
    /\ apc = "context"
    /\ IF page.crash = "context" THEN Raise ELSE GoOn("goto")
    /\ UNCHANGED attempt_frame

\* a navigation whose timeout is passed over
Goto_timeout_goes_on ==
    /\ apc = "goto"
    /\ CASE page.goto = "ok" -> GoOn("login")
         [] page.goto = "timeout" -> GoOn("login")
         [] page.goto = "error" -> CloseAndReturn("navigation failed", FALSE, NoContent)
    /\ UNCHANGED attempt_frame

\* page.goto(url, wait_until='domcontentloaded', timeout=30000) and its two
\* except clauses
Goto ==
    /\ apc = "goto"
    /\ CASE page.goto = "ok" -> GoOn("login")
         [] page.goto = "timeout" -> CloseAndReturn("timeout", FALSE, NoContent)
         [] page.goto = "error" -> CloseAndReturn("navigation failed", FALSE, NoContent)
    /\ UNCHANGED attempt_frame

\* if "login" in page.url.lower(): if not self.try_authentication(page): ...
Login ==
    /\ apc = "login"
    /\ IF page.login
       THEN IF try_authentication(credentials, page)
            THEN /\ submitted' = TRUE
                 /\ apc' = "wait"
                 /\ UNCHANGED << browser, exit_path, attempt_result, ladder >>
            ELSE CloseAndReturn("authentication failed", FALSE, NoContent)
       ELSE GoOn("wait")
    /\ UNCHANGED attempt_frame

\* page.wait_for_timeout(2000)
Wait ==
    /\ apc = "wait"
    /\ IF page.crash = "wait" THEN Raise ELSE GoOn("scan")
    /\ UNCHANGED attempt_frame

\* if self.check_access_denied(page): ...
Scan ==
    /\ apc = "scan"
    /\ IF check_access_denied(page)
       THEN CloseAndReturn("access denied", FALSE, NoContent)
       ELSE GoOn("extract")
    /\ UNCHANGED attempt_frame

\* content = self.extract_content(page) and the two branches on it, each with
\* its screenshot
Extract ==
    /\ apc = "extract"
    /\ LET content == extract_content(page) IN
           IF content # NoContent /\ content # <<>> /\ len(content) > MIN_CONTENT
           THEN IF page.debug /\ page.crash = "screenshot"
                THEN Raise
                ELSE CloseAndReturn("success", TRUE, content)
           ELSE IF page.crash = "screenshot"
                THEN Raise
                ELSE CloseAndReturn("no content", FALSE, NoContent)
    /\ UNCHANGED attempt_frame

\* The exception leaves the `with` block, which ends Playwright, and is caught
\* by `except Exception`: return False, None.  The caller tests `if success`.
Except ==
    /\ apc = "except"
    /\ browser' = sync_playwright_exit(browser)
    /\ exit_path' = "exception"
    /\ attempt_result' = [ success |-> FALSE, content |-> NoContent ]
    /\ ladder' = IF ShortCircuits(FALSE) THEN "returns" ELSE "goes on"
    /\ apc' = "returned"
    /\ UNCHANGED submitted
    /\ UNCHANGED attempt_frame

\* A return statement leaves the `with` block, which ends Playwright.  The
\* caller tests `if success`.
Leave ==
    /\ apc = "leave"
    /\ browser' = sync_playwright_exit(browser)
    /\ ladder' = IF ShortCircuits(attempt_result.success) THEN "returns" ELSE "goes on"
    /\ apc' = "returned"
    /\ UNCHANGED << submitted, exit_path, attempt_result >>
    /\ UNCHANGED attempt_frame

AttemptNext ==
    \/ Launch
    \/ NewContext
    \/ Goto
    \/ Login
    \/ Wait
    \/ Scan
    \/ Extract
    \/ Except
    \/ Leave

AttemptSpec == AttemptInit /\ [][AttemptNext]_vars

\* the step-by-step call returns what try_fetch_with_method, as the ladder of
\* fetch uses it, returns
AttemptAgrees ==
    apc = "returned" => attempt_result = try_fetch_with_method(credentials, page)

(***************************************************************************)
(* run_app: a session of the app, one button click after another.  Each    *)
(* click runs the script once; what process_article_batch does with the    *)
(* sublist it is handed is left to the specifications above.               *)
(***************************************************************************)
\* the lists fetch_items_api can return, the links with an error title
\* filtered out
FetchedLists == UNION { [ 1 .. n -> Links ] : n \in 0 .. MaxFetched }

AppInit ==
    /\ BatchIdle
    /\ credentials = <<None, None>>
    /\ FetchIdle
    /\ AttemptIdle
    /\ SearchIdle
    /\ FileIdle
    /\ persisted = <<>>
    /\ probes = NoProbes
    /\ AppIdle

\* what no click changes
app_frame == << batch_vars, fetch_vars, attempt_vars, search_vars, file_vars, persisted,
               probes >>

\* the Fetch button: if links: st.session_state["lean_fetched_links"] = links
FetchClick ==
    /\ clicks < MaxClicks
    /\ clicks' = clicks + 1
    /\ \E links \in FetchedLists :
          lean_fetched_links' = IF links # <<>> THEN links ELSE lean_fetched_links
    /\ UNCHANGED << lean_import_pos, submissions, app_frame >>

\* the Reset button, shown when there are fetched links
ResetClick ==
    /\ clicks < MaxClicks
    /\ lean_fetched_links # <<>>
    /\ clicks' = clicks + 1
    /\ lean_import_pos' = 0
    /\ UNCHANGED << lean_fetched_links, submissions, app_frame >>

\* the largest batch size the number input takes: max(1, total - import_pos)
MaxBatchSize(total, import_pos) == IF total - import_pos > 1 THEN total - import_pos ELSE 1

\* fetched[start:end], for any start and end
Slice(seq, start, end) ==
    SubSeq(seq, (IF start < Len(seq) THEN start ELSE Len(seq)) + 1,
                IF end < Len(seq) THEN end ELSE Len(seq))

\* the Import Batch button, shown when there are fetched links, with the
\* batch size the number input holds
ImportClick ==
    /\ clicks < MaxClicks
    /\ lean_fetched_links # <<>>
    /\ clicks' = clicks + 1
    /\ \E batch_size \in 1 .. MaxBatchSize(Len(lean_fetched_links), lean_import_pos) :
          LET total == Len(lean_fetched_links)
              start == lean_import_pos
              end == IF start + batch_size < total THEN start + batch_size ELSE total
              sublist == Slice(lean_fetched_links, start, end)
          IN  /\ submissions' = Append(submissions, [ start |-> start, sublist |-> sublist ])
              /\ lean_import_pos' = end
    /\ UNCHANGED << lean_fetched_links, app_frame >>

AppNext ==
    \/ FetchClick
    \/ ResetClick
    \/ ImportClick

AppSpec == AppInit /\ [][AppNext]_vars

(***************************************************************************)
(* search_articles(query, articles, top_k), one call, statement by         *)
(* statement.  The caller passes a non-empty query and a top_k of 1 at     *)
(* least.                                                                  *)
(***************************************************************************)
SearchInit ==
    /\ BatchIdle
    /\ credentials = <<None, None>>
    /\ FetchIdle
    /\ AttemptIdle
    /\ RestIdle
    /\ query \in Queries
    /\ library \in Libraries
    /\ top_k \in TopKs
    /\ spc = "called"
    /\ results = <<>>
    /\ search_path = ""

\* a call of search_articles on a library of articles that differ in the
\* number of occurrences of a stop word
KeywordInit ==
    /\ BatchIdle
    /\ credentials = <<None, None>>
    /\ FetchIdle
    /\ AttemptIdle
    /\ RestIdle
    /\ query \in Queries
    /\ library \in KeywordLibraries
    /\ top_k \in TopKs
    /\ spc = "called"
    /\ results = <<>>
    /\ search_path = ""

\* what no step of the search changes
search_frame == << batch_vars, fetch_vars, attempt_vars, rest_vars, query, library, top_k >>

\* if not articles: return []
EmptyLibrary ==
    /\ spc = "called"
    /\ library = <<>>
    /\ spc' = "returned"
    /\ results' = <<>>
    /\ search_path' = "empty"
    /\ UNCHANGED search_frame

\* vectorizer, X = build_tfidf_index(articles); if vectorizer is None:
BuildIndex ==
    /\ spc = "called"
    /\ library # <<>>
    /\ spc' = IF build_tfidf_index_is_none(library) THEN "keyword" ELSE "tfidf"
    /\ UNCHANGED << results, search_path >>
    /\ UNCHANGED search_frame

\* the keyword fallback: it raises on a None, else it returns its list
KeywordFallback ==
    /\ spc = "keyword"
    /\ IF KeywordRaises(library)
       THEN /\ spc' = "raised"
            /\ UNCHANGED results
       ELSE /\ spc' = "returned"
            /\ results' = KeywordSearch(query, library, top_k)
    /\ search_path' = "keyword"
    /\ UNCHANGED search_frame

\* the TF-IDF ranking, for each order argsort can give
TfidfRank ==
    /\ spc = "tfidf"
    /\ \E sims \in { Similarities(query, library) } :
           \E r \in { TfidfSearch(sims, order, top_k) : order \in ArgSorts(sims) } :
               results' = r
    /\ spc' = "returned"
    /\ search_path' = "tfidf"
    /\ UNCHANGED search_frame

SearchNext ==
    \/ EmptyLibrary
    \/ BuildIndex
    \/ KeywordFallback
    \/ TfidfRank

SearchSpec == SearchInit /\ [][SearchNext]_vars

KeywordSpec == KeywordInit /\ [][SearchNext]_vars

(***************************************************************************)
(* data/articles.json: save_articles and lean_client.fetch_and_cache write  *)
(* it, load_articles (and load_cached_articles) reads it.  A file is the    *)
(* sequence of the chunks written to it, a chunk being the number of the    *)
(* write it comes from; the file the program starts with is write 0.        *)
(***************************************************************************)
\* the complete content of write v
Content(v) == [ k \in 1 .. MaxChunks |-> v ]

\* json.load of what was read: a complete document parses; an empty file or
\* the beginning of a document raises JSONDecodeError, and load_articles
\* returns []; so does, at best, a mix of two documents
Parse(buf) ==
    IF \E v \in 0 .. MaxWrites : buf = Content(v)
    THEN [ outcome |-> "content", content |-> buf ]
    ELSE [ outcome |-> "corrupted", content |-> <<>> ]

FileInit ==
    /\ BatchIdle
    /\ credentials = <<None, None>>
    /\ FetchIdle
    /\ AttemptIdle
    /\ SearchIdle
    /\ \E exists \in BOOLEAN :
          /\ fs_path = IF exists THEN 1 ELSE 0
          /\ inodes = IF exists THEN << Content(0) >> ELSE <<>>
    /\ wpc = "idle"
    /\ w_inode = 0
    /\ writes = 0
    /\ rpc = "start"
    /\ r_inode = 0
    /\ r_buf = <<>>
    /\ loaded = NotLoaded
    /\ persisted = <<>>
    /\ probes = NoProbes
    /\ AppIdle

\* what no file operation changes
file_frame == << batch_vars, fetch_vars, attempt_vars, search_vars, persisted, probes,
                app_vars >>

reader_vars == << rpc, r_inode, r_buf, loaded >>

\* save_articles: tempfile.NamedTemporaryFile("w", delete=False, dir=DATA_DIR)
SaveOpenTemp ==
    /\ wpc = "idle"
    /\ writes < MaxWrites
    /\ writes' = writes + 1
    /\ inodes' = Append(inodes, <<>>)
    /\ w_inode' = Len(inodes) + 1
    /\ wpc' = "temp"
    /\ UNCHANGED << fs_path, reader_vars, file_frame >>

\* save_articles: json.dump(articles, tf) writes the next chunk
SaveWrite ==
    /\ wpc = "temp"
    /\ Len(inodes[w_inode]) < MaxChunks
    /\ inodes' = [ inodes EXCEPT ![w_inode] = Append(@, writes) ]
    /\ UNCHANGED << fs_path, wpc, w_inode, writes, reader_vars, file_frame >>

\* save_articles: Path(tmpname).replace(ARTICLES_PATH), after the temporary
\* file is written and closed
SaveReplace ==
    /\ wpc = "temp"
    /\ Len(inodes[w_inode]) = MaxChunks
    /\ fs_path' = w_inode
    /\ wpc' = "idle"
    /\ w_inode' = 0
    /\ UNCHANGED << inodes, writes, reader_vars, file_frame >>

\* save_articles: except Exception: st.error(...); the temporary file stays
SaveFails ==
    /\ wpc = "temp"
    /\ Len(inodes[w_inode]) < MaxChunks
    /\ wpc' = "idle"
    /\ w_inode' = 0
    /\ UNCHANGED << fs_path, inodes, writes, reader_vars, file_frame >>

\* fetch_and_cache: open(data_path / "articles.json", "w") makes the file or
\* empties the one the path names
CacheOpen ==
    /\ wpc = "idle"
    /\ writes < MaxWrites
    /\ writes' = writes + 1
    /\ IF fs_path = 0
       THEN /\ inodes' = Append(inodes, <<>>)
            /\ fs_path' = Len(inodes) + 1
       ELSE /\ inodes' = [ inodes EXCEPT ![fs_path] = <<>> ]
            /\ UNCHANGED fs_path
    /\ w_inode' = fs_path'
    /\ wpc' = "inplace"
    /\ UNCHANGED << reader_vars, file_frame >>

\* fetch_and_cache: json.dump(articles_out, f) writes the next chunk
CacheWrite ==
    /\ wpc = "inplace"
    /\ Len(inodes[w_inode]) < MaxChunks
    /\ inodes' = [ inodes EXCEPT ![w_inode] = Append(@, writes) ]
    /\ UNCHANGED << fs_path, wpc, w_inode, writes, reader_vars, file_frame >>

\* fetch_and_cache: the end of the `with` block, after the last chunk or on
\* an exception of json.dump
CacheClose ==
    /\ wpc = "inplace"
    /\ wpc' = "idle"
    /\ w_inode' = 0
    /\ UNCHANGED << fs_path, inodes, writes, reader_vars, file_frame >>

writer_vars == << wpc, w_inode, writes >>

\* load_articles: if ARTICLES_PATH.exists(); return [] if it does not
LoadExists ==
    /\ rpc = "start"
    /\ IF fs_path = 0
       THEN /\ rpc' = "returned"
            /\ loaded' = [ outcome |-> "absent", content |-> <<>> ]
       ELSE /\ rpc' = "exists"
            /\ UNCHANGED loaded
    /\ UNCHANGED << fs_path, inodes, writer_vars, r_inode, r_buf, file_frame >>

\* load_articles: open(ARTICLES_PATH, "r")
LoadOpen ==
    /\ rpc = "exists"
    /\ r_inode' = fs_path
    /\ rpc' = "reading"
    /\ UNCHANGED << fs_path, inodes, writer_vars, r_buf, loaded, file_frame >>

\* load_articles: json.load(f) reads the next chunk of the open file
LoadRead ==
    /\ rpc = "reading"
    /\ Len(r_buf) < Len(inodes[r_inode])
    /\ r_buf' = Append(r_buf, inodes[r_inode][Len(r_buf) + 1])
    /\ UNCHANGED << fs_path, inodes, writer_vars, rpc, r_inode, loaded, file_frame >>

\* load_articles: json.load(f) meets the end of the file and parses
LoadParse ==
    /\ rpc = "reading"
    /\ Len(r_buf) >= Len(inodes[r_inode])
    /\ loaded' = Parse(r_buf)
    /\ rpc' = "returned"
    /\ UNCHANGED << fs_path, inodes, writer_vars, r_inode, r_buf, file_frame >>

FileNext ==
    \/ SaveOpenTemp
    \/ SaveWrite
    \/ SaveReplace
    \/ SaveFails
    \/ CacheOpen
    \/ CacheWrite
    \/ CacheClose
    \/ LoadExists
    \/ LoadOpen
    \/ LoadRead
    \/ LoadParse

FileSpec == FileInit /\ [][FileNext]_vars

(***************************************************************************)
(* Properties of the batch importer.                                       *)
(***************************************************************************)
Returned == pc = "done"

Records == 1 .. Len(new_articles)

Positions == 1 .. Len(items)

\* the items of the batch the loop called fetch_and_extract_html for
Fetched(i) == \E k \in 1 .. Len(fetch_calls) : fetch_calls[k] = i - 1

\* the records appended for a URL
RecordsOf(u) == { k \in Records : new_articles[k].url = u }

\* a URL that denotes a direct PDF resource: in lower case it ends in ".pdf" or
\* holds "/pdf/", "download.pdf", "/getpdf", "pdf?" or "pdf="
DenotesPdf(u) ==
    \/ EndsWith(Lower(u), <<".","p","d","f">>)
    \/ \E pattern \in { <<"/","p","d","f","/">>,
                         <<"d","o","w","n","l","o","a","d",".","p","d","f">>,
                         <<"/","g","e","t","p","d","f">>,
                         <<"p","d","f","?">>,
                         <<"p","d","f","=">> } : Contains(Lower(u), pattern)

\* C1: every record of the batch importer with import_status = success has a
\* text of more than 200 characters and carries no import_reason.
C1_SuccessHasText ==
    \A k \in Records :
        new_articles[k].import_status = "success" =>
            /\ len(new_articles[k].text) > 200
            /\ "import_reason" \notin DOMAIN new_articles[k]

C1_Witness ==
    /\ Returned
    /\ \E k \in Records : new_articles[k].import_status = "success"

\* C2: every record of the batch importer with import_status = failed has the
\* empty text and a non-empty import_reason.
C2_FailedHasReason ==
    \A k \in Records :
        new_articles[k].import_status = "failed" =>
            /\ new_articles[k].text = <<>>
            /\ "import_reason" \in DOMAIN new_articles[k]
            /\ new_articles[k].import_reason # ""

C2_Witness ==
    /\ Returned
    /\ \E k \in Records : new_articles[k].import_status = "failed"

\* C3: a URL that stands twice in the candidate links of one batch (present,
\* not seen before the batch, not a PDF URL) yields exactly one new record,
\* and its second occurrence is logged as a duplicate skip, whatever became of
\* the first occurrence.
C3_SameUrlTwiceOneRecord ==
    Returned =>
        \A i, j \in Positions :
            ( /\ i < j
              /\ items[i].url = items[j].url
              /\ \A h \in 1 .. (i - 1) : items[h].url # items[i].url
              /\ items[i].url # Missing
              /\ items[i].url \notin seen_at_call
              /\ ~DenotesPdf(items[i].url) )
            => /\ Cardinality(RecordsOf(items[i].url)) = 1
               /\ logs[j] = LogSkipDuplicate(start_idx + j)

\* C4: every candidate link the loop does not skip produces exactly one new
\* record, success or failed with the reason of the failure, the items whose
\* fetch raised included.
C4_OneRecordPerAttemptedItem ==
    Returned =>
        /\ Len(new_articles) = Len(fetch_calls)
        /\ \A k \in Records :
              /\ new_articles[k].url = items[fetch_calls[k] + 1].url
              /\ \/ new_articles[k].import_status = "success"
                 \/ /\ new_articles[k].import_status = "failed"
                    /\ new_articles[k].import_reason = logs[fetch_calls[k] + 1].text

\* C5: an exception raised for one item does not end the batch: the loop goes
\* through every later item (each has its log entry, and each one that is not
\* skipped has its call of the orchestrator), and the log entry of the item that
\* raised holds the type of the exception and its message cut to 100 characters.
C5_ExceptionDoesNotAbort ==
    /\ \A r \in 1 .. Len(raised) :
          LET entry == logs[raised[r].idx + 1] IN
              /\ entry.mark = "fail"
              /\ entry.global_idx = start_idx + raised[r].idx + 1
              /\ entry.text = "Unexpected error"
              /\ entry.exc_type = raised[r].exc.type
              /\ entry.chars = IF raised[r].exc.msg_len > 100 THEN 100
                               ELSE raised[r].exc.msg_len
              /\ pc = "loop" => idx > raised[r].idx
    /\ Returned =>
          /\ idx = Len(items)
          /\ \A i \in Positions :
                /\ logs[i].global_idx = start_idx + i
                /\ logs[i].mark \in {"ok", "fail"} <=> Fetched(i)

C5_Witness ==
    /\ Returned
    /\ \E r \in 1 .. Len(raised) :
          /\ raised[r].idx + 1 < Len(items)
          /\ raised[r].exc.msg_len > 100
          /\ Fetched(Len(items))

\* C6: a candidate link with a PDF URL is skipped with a 'Skipped PDF URL' log
\* entry, without a call of the orchestrator, without a record, and without
\* its URL being added to the seen-URL set.
C6_PdfSkipped ==
    Returned =>
        \A i \in Positions :
            (items[i].url # Missing /\ DenotesPdf(items[i].url)) =>
                /\ logs[i] = LogSkipPdf(start_idx + i, items[i].url)
                /\ ~Fetched(i)
                /\ RecordsOf(items[i].url) = {}
                /\ items[i].url \in existing_urls <=> items[i].url \in seen_at_call

\* C6 as amended: a candidate link with a PDF URL that is not already in the
\* seen-URL set is skipped with a 'Skipped PDF URL' log entry, and one whose URL
\* is already seen is skipped as a duplicate; either way without a call of the
\* orchestrator, without a record, and without a change to the seen-URL set.
C6_PdfSkippedUnlessSeen ==
    Returned =>
        \A i \in Positions :
            (items[i].url # Missing /\ DenotesPdf(items[i].url)) =>
                /\ logs[i] = IF items[i].url \in seen_at_call
                             THEN LogSkipDuplicate(start_idx + i)
                             ELSE LogSkipPdf(start_idx + i, items[i].url)
                /\ ~Fetched(i)
                /\ RecordsOf(items[i].url) = {}
                /\ items[i].url \in existing_urls <=> items[i].url \in seen_at_call

C6_Witness ==
    /\ Returned
    /\ \E i \in Positions :
          /\ EndsWith(Lower(items[i].url), <<".","p","d","f">>)
          /\ logs[i].text = "Skipped PDF URL"
          /\ new_articles # <<>>

(***************************************************************************)
(* Properties of AcademicArticleFetcher.fetch.                             *)
(***************************************************************************)
FetchReturned == pc = "fetch" /\ fpc = "returned"

Tries == 1 .. Len(attempts)

IsProxyMethod(method) ==
    method \in {"EZproxy - login_url", "EZproxy - prefix", "EZproxy - subdomain"}

\* C7: the first attempt that succeeds ends the ladder: fetch returns with the
\* content of that attempt and no attempt follows it.
C7_FirstSuccessShortCircuits ==
    /\ \A k \in Tries : attempts[k].success => k = Len(attempts) /\ fpc = "returned"
    /\ (FetchReturned /\ attempts # <<>> /\ attempts[Len(attempts)].success) =>
          fetch_result = [ success |-> TRUE, content |-> attempts[Len(attempts)].content ]
    /\ (FetchReturned /\ fetch_result.success) =>
          attempts # <<>> /\ attempts[Len(attempts)].success

C7_Witness ==
    /\ FetchReturned
    /\ needs_proxy /\ vpn_connected
    /\ Len(attempts) = 2
    /\ fetch_result.success

\* C8: for a URL on a blocked domain with the proxy unreachable, fetch makes one
\* attempt, a direct one, and no proxy rewriting, whatever the pre-flight tests
\* and the attempt give.
C8_BlockedUnreachableOneDirect ==
    (FetchReturned /\ needs_proxy /\ ~vpn_connected) =>
        /\ Len(attempts) = 1
        /\ attempts[1].url = url
        /\ ~IsProxyMethod(attempts[1].method)

\* C9: for a URL on a blocked domain with the proxy reachable, the attempts are
\* made in the order direct, login-redirect form, domain-prefix form, subdomain
\* form, each at most once and each only after all the earlier ones failed; for
\* a domain that is not blocked no proxy form is attempted.
C9_LadderOrder ==
    LET order == << "Direct Access", "EZproxy - login_url", "EZproxy - prefix",
                    "EZproxy - subdomain" >>
    IN  pc = "fetch" =>
            /\ (needs_proxy /\ vpn_connected) =>
                  /\ Len(attempts) <= 4
                  /\ \A k \in Tries :
                        /\ attempts[k].method = order[k]
                        /\ k > 1 => ~attempts[k - 1].success
                        /\ (k = 1) <=> (attempts[k].url = url)
                        /\ k > 1 => Contains(attempts[k].url, <<"p","r","o","x","y">>)
            /\ ~needs_proxy =>
                  \A k \in Tries :
                      ~IsProxyMethod(attempts[k].method) /\ attempts[k].url = url

C9_Witness ==
    /\ FetchReturned
    /\ needs_proxy /\ vpn_connected
    /\ Len(attempts) = 4
    /\ attempts[4].method = "EZproxy - subdomain"

\* C10: every call of fetch returns, after at most four attempts (the direct
\* one and the three proxy forms), no step of the ladder being taken twice:
\* there are never more than four attempts, no two of them by the same step
\* of the ladder; a fetch that has not returned is at a step it can take (one
\* of the three strategies, the loop of strategy 2 having a form left); and
\* every step of a fetch makes one more attempt.
C10_FetchTerminates ==
    /\ [](Len(attempts) <= 4)
    /\ [](\A k, m \in Tries : attempts[k].method = attempts[m].method => k = m)
    /\ []((pc = "fetch" /\ fpc # "returned") =>
            /\ fpc \in {"strategy1", "strategy2", "strategy3"}
            /\ fpc = "strategy2" => ez_idx < Len(generate_ezproxy_urls(url)))
    /\ [][(pc = "fetch" /\ pc' = "fetch") => Len(attempts') = Len(attempts) + 1]_vars

C10_Witness ==
    /\ FetchReturned
    /\ Len(attempts) = 4
    /\ ~fetch_result.success

(***************************************************************************)
(* Properties of AcademicArticleFetcher.try_fetch_with_method.             *)
(***************************************************************************)
AttemptReturned == apc = "returned"

\* the exits of the function made with a return statement of its own
ExplicitExits ==
    { "timeout", "navigation failed", "authentication failed", "access denied",
      "success", "no content" }

\* the fetcher lacks the username or the password
NoCredentials == credentials[1] = None \/ credentials[2] = None

\* the content selectors of the page, in order, whose text is longer than 200
\* characters
QualifyingSelectors ==
    { i \in 1 .. NumSelectors : page.texts[i] # Absent /\ len(page.texts[i]) > 200 }

\* C11: when try_fetch_with_method returns, the browser it launched is not
\* open any more, whichever way it left: closed by browser.close() on the
\* exits made with a return statement (timeout, navigation error, failed
\* authentication, access denied, success, no content), ended with Playwright
\* when an exception was raised after the launch.
C11_BrowserReleased ==
    AttemptReturned =>
        /\ browser # "open"
        /\ page.launch <=> browser \in {"closed", "killed"}
        /\ exit_path \in ExplicitExits => browser = "closed"
        /\ exit_path \in ExplicitExits \cup {"exception"}

C11_Witness ==
    /\ AttemptReturned
    /\ exit_path = "exception"
    /\ page.crash = "screenshot"
    /\ browser = "killed"

\* C12: a page-load timeout does not end the attempt: the page that had
\* loaded is scanned and its content extracted, and the attempt succeeds when
\* no denial phrase is on it and a content selector holds more than 200
\* characters.
C12_TimeoutNonFatal ==
    ( /\ AttemptReturned
      /\ page.goto = "timeout"
      /\ page.body = DefaultBody
      /\ QualifyingSelectors # {} )
    => attempt_result.success

\* C12 as amended: a page-load timeout ends the attempt as a failure, the
\* browser closed, without a scan or an extraction of what had loaded and
\* without an exception; the ladder of fetch goes on.
C12_TimeoutEndsAttempt ==
    /\ [](( AttemptReturned /\ page.goto = "timeout" ) =>
            /\ attempt_result = [ success |-> FALSE, content |-> NoContent ]
            /\ exit_path = "timeout"
            /\ browser = "closed"
            /\ ladder = "goes on")
    /\ [][( apc = "goto" /\ page.goto = "timeout" ) => apc' = "leave"]_vars

C12_Witness ==
    /\ AttemptReturned
    /\ page.goto = "timeout"
    /\ page.body = DefaultBody
    /\ QualifyingSelectors # {}
    /\ ~attempt_result.success

\* C13: an attempt that lands on a login page while the fetcher lacks the
\* username or the password ends as a failure, by a return and not by an
\* exception, without a login form having been submitted, and fetch goes on
\* with its ladder.
C13_NoCredentialsCannotProceed ==
    ( /\ AttemptReturned
      /\ page.launch /\ page.crash # "context" /\ page.goto = "ok"
      /\ page.login
      /\ NoCredentials )
    => /\ attempt_result = [ success |-> FALSE, content |-> NoContent ]
       /\ ~submitted
       /\ exit_path = "authentication failed"
       /\ ladder = "goes on"

C13_Witness ==
    /\ AttemptReturned
    /\ page.login /\ page.form
    /\ credentials = << "user", None >>
    /\ exit_path = "authentication failed"

\* C14: an attempt on a page whose visible text holds an access-denial phrase
\* fails, however long the text under the content selectors is, also when the
\* page is the one a login submission led to.
C14_DenialPhraseFails ==
    ( /\ AttemptReturned
      /\ page.body # Unreadable
      /\ \E phrase \in ACCESS_DENIED_PHRASES : Contains(Lower(page.body), phrase) )
    => /\ ~attempt_result.success
       /\ attempt_result.content = NoContent

C14_Witness ==
    /\ AttemptReturned
    /\ Contains(page.body, <<"4","0","3">>)
    /\ QualifyingSelectors # {}
    /\ submitted
    /\ exit_path = "access denied"

\* C16: for a page whose only content is an <article> node holding 'short',
\* the extraction fails with the reason 'content too short', which is not the
\* reason it gives for a page without any candidate node.
C16_ShortContentReason ==
    ( /\ AttemptReturned
      /\ exit_path = "no content"
      /\ page.texts = SelectorTexts(Short, Absent) )
    => /\ ~attempt_result.success
       /\ ExtractResult(attempt_result).reason = "content too short"
       /\ ExtractResult(attempt_result).reason # ExtractResult(NoResult).reason

\* C17: for a page with a <main> block of 300 characters and no <article>
\* node, the extraction returns the text of the main block with the reason
\* 'extracted from main'.
C17_MainBlockReason ==
    ( /\ AttemptReturned
      /\ exit_path = "success"
      /\ page.texts = SelectorTexts(Absent, Chars("m", 300)) )
    => /\ attempt_result = [ success |-> TRUE, content |-> Chars("m", 300) ]
       /\ ExtractResult(attempt_result).text = Chars("m", 300)
       /\ ExtractResult(attempt_result).reason = "extracted from main"

\* C17 as amended: an attempt that gets to the extraction succeeds exactly
\* when a content selector holds more than 200 characters, with the text of
\* the first such selector in the order of CONTENT_SELECTORS (a missing or
\* shorter earlier candidate is passed over); the text comes back with the
\* reason 'Extracted using AcademicArticleFetcher', whichever selector gave it.
C17_FirstQualifyingSelector ==
    ( AttemptReturned /\ exit_path \in {"success", "no content"} ) =>
        IF QualifyingSelectors # {}
        THEN LET first == CHOOSE i \in QualifyingSelectors :
                              \A j \in QualifyingSelectors : i <= j
             IN  /\ attempt_result = [ success |-> TRUE, content |-> page.texts[first] ]
                 /\ exit_path = "success"
                 /\ len(ExtractResult(attempt_result).text) > 200
                 /\ ExtractResult(attempt_result).reason =
                        "Extracted using AcademicArticleFetcher"
        ELSE /\ attempt_result = [ success |-> FALSE, content |-> NoContent ]
             /\ exit_path = "no content"

C17_Witness ==
    /\ AttemptReturned
    /\ page.texts = SelectorTexts(Absent, Chars("m", 300))
    /\ attempt_result = [ success |-> TRUE, content |-> Chars("m", 300) ]

(***************************************************************************)
(* Properties of fetch_and_extract_html as the batch importer uses it.     *)
(***************************************************************************)
\* C15: the text the batch importer stores for a fetch that succeeded with an
\* extracted text of more than MAX_ARTICLE_TEXT characters has exactly
\* MAX_ARTICLE_TEXT + 16 characters (16 being the length of the truncation
\* marker), the first MAX_ARTICLE_TEXT of them being those of the extracted
\* text and the rest the marker; a shorter extracted text is stored as it is.
C15_Truncation ==
    [][ ( pc = "fetch" /\ fpc = "returned" /\ fetch_result.success /\ pc' = "loop" ) =>
          LET extracted == fetch_result.content
              stored == new_articles'[Len(new_articles')].text
          IN  /\ Len(new_articles') = Len(new_articles) + 1
              /\ new_articles'[Len(new_articles')].import_status = "success"
              /\ IF len(extracted) > MAX_ARTICLE_TEXT
                 THEN /\ len(stored) = MAX_ARTICLE_TEXT + TRUNCATION_MARKER_LEN
                      /\ TextTake(stored, MAX_ARTICLE_TEXT) =
                             TextTake(extracted, MAX_ARTICLE_TEXT)
                      /\ len(TextTake(stored, MAX_ARTICLE_TEXT)) = MAX_ARTICLE_TEXT
                      /\ stored[Len(stored)] = <<"]", 1>>
                 ELSE stored = extracted ]_vars

C15_Witness ==
    /\ Returned
    /\ \E k \in Records :
          /\ len(new_articles[k].text) = 200016
          /\ new_articles[k].text[1] = <<"a", 200000>>
    /\ \E k \in Records : len(new_articles[k].text) = 300

(***************************************************************************)
(* Properties of search_articles.                                          *)
(***************************************************************************)
SearchReturned == spc = "returned"

\* the library of the scenario: "Cell growth study" and "Unrelated", no texts
ScenarioLibrary ==
    << [ title |-> <<"C","e","l","l"," ","g","r","o","w","t","h"," ","s","t","u","d","y">>,
         abstract |-> <<>>, text |-> <<>> ],
       [ title |-> <<"U","n","r","e","l","a","t","e","d">>, abstract |-> <<>>, text |-> <<>> ] >>

\* the call search_articles("growth", ScenarioLibrary, top_k=5) has returned
ScenarioReturned ==
    /\ SearchReturned
    /\ query = <<"g","r","o","w","t","h">>
    /\ library = ScenarioLibrary
    /\ top_k = 5

\* C18 as stated: in the scenario the call takes the keyword fallback and
\* returns the first article alone, with the score 2.0
C18_ScenarioScoreTwo ==
    ScenarioReturned =>
        /\ search_path = "keyword"
        /\ Len(results) = 1
        /\ results[1].index = 1
        /\ results[1].score.num * 10 = 20 * results[1].score.den

\* C18, amended: in the scenario the call takes the keyword fallback and
\* returns the first article alone, with the score 2.5: 2.0 for the query in
\* the title and 0.5 for its one occurrence there; the second article, whose
\* score is 0, is not returned
C18_ScenarioScoreTwoAndAHalf ==
    ScenarioReturned =>
        /\ search_path = "keyword"
        /\ Len(results) = 1
        /\ results[1].index = 1
        /\ results[1].score.num * 10 = 25 * results[1].score.den

C18_Witness == ScenarioReturned /\ Len(results) = 1

\* C19: every score search_articles returns lies in [0, 1], on the TF-IDF path
\* and on the keyword path
C19_ScoresInUnitInterval ==
    SearchReturned =>
        \A k \in DOMAIN results :
            /\ results[k].score.den > 0
            /\ 0 <= results[k].score.num
            /\ results[k].score.num <= results[k].score.den

\* the score the path taken gives each article of the library
PathScores ==
    IF search_path = "keyword"
    THEN [ i \in DOMAIN library |->
             [ num |-> (IF Contains(Lower(library[i].title), Lower(query)) THEN 20 ELSE 0)
                       + 5 * str_count(Lower(library[i].title), Lower(query))
                       + 3 * str_count(Lower(library[i].abstract), Lower(query))
                       + 1 * str_count(Lower(library[i].text), Lower(query)),
               den |-> 10 ] ]
    ELSE Similarities(query, library)

ReturnedIndices == { results[k].index : k \in DOMAIN results }

\* C20: on both paths the call returns at most top_k results, each with the
\* score of its article, in non-increasing order of score and none of score
\* 0; no article left out scores higher than one returned, and an article of
\* non-zero score is left out only when top_k are returned
C20_TopKNonZeroDescending ==
    SearchReturned =>
        \A score \in { PathScores } :
            /\ Len(results) <= top_k
            /\ \A k \in DOMAIN results :
                  /\ results[k].index \in DOMAIN library
                  /\ results[k].score = score[results[k].index]
                  /\ results[k].score.num > 0
            /\ \A j, k \in DOMAIN results : j < k =>
                  /\ results[j].index # results[k].index
                  /\ results[k].score.num * results[j].score.den
                        <= results[j].score.num * results[k].score.den
            /\ \A i \in DOMAIN library \ ReturnedIndices :
                  /\ \A k \in DOMAIN results :
                        score[i].num * results[k].score.den
                            <= results[k].score.num * score[i].den
                  /\ score[i].num > 0 => Len(results) = top_k

\* a keyword call that had to reorder and to cut
C20_Witness ==
    /\ SearchReturned
    /\ search_path = "keyword"
    /\ Len(library) = 3
    /\ Len(results) = 2
    /\ top_k = 2
    /\ results[1].index = 3
    /\ results[2].index = 1

\* a TF-IDF call that had to reorder, to cut and to drop a zero
C20_WitnessTfidf ==
    /\ SearchReturned
    /\ search_path = "tfidf"
    /\ Len(library) = 3
    /\ Len(results) = 1
    /\ top_k = 2
    /\ results[1].index = 3

\* the model's scores are fractions with positive denominators
SearchTypeOK ==
    \A k \in DOMAIN results :
        /\ results[k].index \in DOMAIN library
        /\ results[k].score.num \in Nat
        /\ results[k].score.den \in Nat \ {0}

\* two scores of the same kind are equal
ScoreEqual(a, b) == a.num * b.den = b.num * a.den

\* among the articles of equal score the result follows the library: two that
\* are returned stand in library order, and one that is cut comes later in the
\* library than every returned one of its score
TiesInLibraryOrder ==
    \A score \in { PathScores } :
        /\ \A j, k \in DOMAIN results :
              j < k /\ ScoreEqual(results[j].score, results[k].score)
                  => results[j].index < results[k].index
        /\ \A i \in DOMAIN library \ ReturnedIndices :
              \A k \in DOMAIN results :
                  ScoreEqual(score[i], results[k].score) => results[k].index < i

\* C21: in the result of search_articles two articles of equal score stand in
\* their library order, on the TF-IDF path and on the keyword path, and a tie
\* at the top_k boundary goes to the article that comes first in the library
C21_TiesInLibraryOrder == SearchReturned => TiesInLibraryOrder

\* the keyword path alone keeps the ties in library order
KeywordTiesInLibraryOrder ==
    SearchReturned /\ search_path = "keyword" => TiesInLibraryOrder

\* the words of a field that are left when the occurrences of q are taken out
Rest(field, q) == Words(Replace(Lower(field), q, <<>>))

\* article a is article b with more occurrences of q: no field holds fewer,
\* one holds more, and nothing else differs
MoreOccurrences(a, b, q) ==
    /\ Rest(a.title, q) = Rest(b.title, q)
    /\ Rest(a.abstract, q) = Rest(b.abstract, q)
    /\ Rest(a.text, q) = Rest(b.text, q)
    /\ str_count(Lower(a.title), q) >= str_count(Lower(b.title), q)
    /\ str_count(Lower(a.abstract), q) >= str_count(Lower(b.abstract), q)
    /\ str_count(Lower(a.text), q) >= str_count(Lower(b.text), q)
    /\ str_count(Lower(a.title), q) + str_count(Lower(a.abstract), q)
          + str_count(Lower(a.text), q)
       > str_count(Lower(b.title), q) + str_count(Lower(b.abstract), q)
          + str_count(Lower(b.text), q)

\* the place of the i-th article of the library in the result
Position(i) == CHOOSE k \in DOMAIN results : results[k].index = i

\* C22: under the keyword fallback, of two articles of the library that differ
\* only in that one holds more occurrences of the query, the one with fewer is
\* returned only if the one with more is returned too, and before it
C22_KeywordMonotone ==
    SearchReturned /\ search_path = "keyword" =>
        \A i, j \in DOMAIN library :
            MoreOccurrences(library[i], library[j], Lower(query))
                /\ j \in ReturnedIndices
            => i \in ReturnedIndices /\ Position(i) < Position(j)

\* the article with more occurrences comes second in the library, is returned
\* first, and the other one is cut by top_k
C22_Witness ==
    /\ SearchReturned
    /\ search_path = "keyword"
    /\ Len(library) = 2
    /\ top_k = 1
    /\ MoreOccurrences(library[2], library[1], Lower(query))
    /\ str_count(Lower(library[1].text), Lower(query)) > 0
    /\ Len(results) = 1
    /\ results[1].index = 2

\* the records of the library are records the program makes: those of
\* add_article, whose fields are the strings of the form, and those of
\* process_article_batch, whose abstract is None
ProgramRecords ==
    \A i \in DOMAIN library :
        /\ library[i].title # NoneStr
        /\ library[i].text # NoneStr

\* C28: for a non-empty library of records the program makes, search_articles
\* does not raise: it returns a list, also when it takes the keyword fallback
C28_SearchNeverRaises ==
    library # <<>> /\ ProgramRecords => spc # "raised"

(***************************************************************************)
(* Properties of the library file.                                         *)
(***************************************************************************)
\* C23: a load of data/articles.json, interleaved in any way with the writers
\* of the file, returns the complete content of a write (the one before or
\* the new one), or [] for a file that was not there: never a part of one
C23_NoPartialRead ==
    rpc = "returned" =>
        \/ loaded.outcome = "absent"
        \/ /\ loaded.outcome = "content"
           /\ \E v \in 0 .. writes : loaded.content = [ k \in 1 .. MaxChunks |-> v ]

\* the library file holds: the program constructs no state outside these
FileTypeOK ==
    /\ fs_path \in 0 .. Len(inodes)
    /\ w_inode \in 0 .. Len(inodes)
    /\ r_inode \in 0 .. Len(inodes)
    /\ writes \in 0 .. MaxWrites

(***************************************************************************)
(* Properties of the Import Batch handler.                                 *)
(***************************************************************************)
\* C24: when the import is interrupted, the records of the items it had
\* processed by then are in the library file
C24_CompletedWorkPersisted ==
    pc = "interrupted" =>
        /\ Len(persisted) >= Len(new_articles)
        /\ \A k \in DOMAIN new_articles : persisted[k] = new_articles[k]

\* a run that is not interrupted saves every record of the batch
BatchSaved == pc = "saved" => persisted = new_articles

(***************************************************************************)
(* Properties of the failure reason of a fetch.                            *)
(***************************************************************************)
\* a page that loads, is no login page, shows no denial phrase and holds no
\* candidate node: the attempt on it fails for want of content
EmptyPage ==
    [ launch |-> TRUE, goto |-> "ok", login |-> FALSE, form |-> FALSE, body |-> DefaultBody,
      texts |-> DefaultTexts, crash |-> "none", debug |-> FALSE ]

\* the reason fetch_and_extract_html returns when the one attempt of the
\* fetch is the attempt that has returned
ReasonReturned == ExtractResult(attempt_result).reason

\* the reason of a fetch whose one attempt meets the empty page
ReasonOfEmptyPage == ExtractResult(try_fetch_with_method(credentials, EmptyPage)).reason

\* C25: the reason of a failed fetch tells the class of the failure: a fetch
\* that fails by a timeout, a navigation error, a failed authentication, an
\* access denial or an exception returns another reason than a fetch that
\* fails because the page holds no content
C25_ReasonTellsFailureClass ==
    ( /\ AttemptReturned
      /\ ~attempt_result.success
      /\ exit_path # "no content" )
    => ReasonReturned # ReasonOfEmptyPage

\* the attempt on the empty page fails for want of content
EmptyPageFails ==
    /\ EmptyPage \in Pages
    /\ AttemptReturned /\ page = EmptyPage => exit_path = "no content"

(***************************************************************************)
(* Properties of the summary of process_article_batch.                     *)
(***************************************************************************)
\* the URL is on the domain
OnDomain(u, d) == Contains(netloc(u), d)

\* the positions of the batch whose import failed: those with a failed record
\* and those whose fetch raised
FailedPositions ==
    { k \in 1 .. Len(items) :
        \/ \E r \in 1 .. Len(raised) : raised[r].idx + 1 = k
        \/ \E n \in 1 .. Len(new_articles) :
              /\ new_articles[n].import_status = "failed"
              /\ new_articles[n].url = items[k].url
              /\ \A j \in 1 .. (k - 1) : items[j].url # items[k].url }

\* the number of failed items on the domain
FailedOn(d) ==
    Cardinality({ k \in FailedPositions :
                    items[k].url # Missing /\ OnDomain(items[k].url, d) })

\* the count the summary of the log reports for the domain, 0 when the domain
\* is not in it
ReportedFor(d) ==
    IF \E k \in 1 .. Len(logs) : logs[k].mark = "summary" /\ logs[k].url = d
    THEN LET k == CHOOSE k \in 1 .. Len(logs) : logs[k].mark = "summary" /\ logs[k].url = d
         IN  logs[k].chars
    ELSE 0

\* C26: the summary process_article_batch appends to the log reports for every
\* blocked domain the number of items of the batch whose import failed and
\* whose URL is on the domain, a domain without such an item being absent
C26_SummaryCountsFailures ==
    pc = "done" => \A d \in BLOCKED_DOMAINS : ReportedFor(d) = FailedOn(d)

(***************************************************************************)
(* Properties of the proxy probes.                                         *)
(***************************************************************************)
\* the attempts of the fetch made on a proxy URL
ProxyAttempts == { k \in 1 .. Len(attempts) : attempts[k].url # items[1].url }

\* C27: fetch takes the proxy for reachable only when the TCP connection test
\* or the HTTP GET of the proxy root succeeded; when both fail it makes no
\* attempt on a proxy URL
C27_ReachableOnlyWhenProbed ==
    pc = "fetch" =>
        /\ vpn_connected => probes.tcp \/ probes.http
        /\ ~probes.tcp /\ ~probes.http => ProxyAttempts = {}

\* with the name of the proxy not resolving, the answer is the TCP test's
ReachableWithoutDns ==
    pc = "fetch" /\ ~probes.dns => (vpn_connected <=> probes.tcp)

(***************************************************************************)
(* Properties of the session of the app.                                   *)
(***************************************************************************)
\* C29: after any sequence of Fetch, Import Batch and Reset the import
\* position lies between 0 and the number of the links fetched
C29_ImportPosInRange ==
    /\ 0 <= lean_import_pos
    /\ lean_import_pos <= Len(lean_fetched_links)

\* without a second Fetch the position stays in range
PosInRangeAfterOneFetch ==
    [][ lean_fetched_links' = lean_fetched_links /\ lean_import_pos <= Len(lean_fetched_links)
            => lean_import_pos' <= Len(lean_fetched_links') ]_vars

(***************************************************************************)
(* Properties of the URLs of one batch.                                    *)
(***************************************************************************)
\* the URLs of the records the call returns
ReturnedUrls == { new_articles[k].url : k \in Records }

\* C30: the records one call of process_article_batch returns have pairwise
\* distinct URLs, none of them in the set of seen URLs handed in, and on
\* return the set of seen URLs is what was handed in plus the URLs of the
\* records returned.
C30_ReturnedUrlsNewAndDistinct ==
    Returned =>
        /\ \A j, k \in Records : j # k => new_articles[j].url # new_articles[k].url
        /\ \A k \in Records : new_articles[k].url \notin seen_at_call
        /\ existing_urls = seen_at_call \cup ReturnedUrls

\* a batch with the same URL twice and a non-empty set of seen URLs has
\* returned one record for the URL
C30_Witness ==
    /\ Returned
    /\ seen_at_call # {}
    /\ Len(items) = 2
    /\ items[1].url = items[2].url
    /\ Len(new_articles) = 1
    /\ new_articles[1].url = items[1].url

\* a batch with an item of a seen URL has returned a record of another item
C30_WitnessSeen ==
    /\ Returned
    /\ \E i \in Positions : items[i].url \in seen_at_call
    /\ Len(new_articles) = 1

=============================================================================
